---- MODULE Spec2Model ----
(***************************************************************************)
(* rainbridge: the Raindrop.io -> Karakeep import.                         *)
(*                                                                         *)
(*   internal/karakeep/karakeep.go   destination client, doRequestWithRetry*)
(*   unnamed/part_001 (l. 127-319)   source client with retry and paging   *)
(*   internal/importer/importer.go   Importer.RunImport                    *)
(*                                                                         *)
(* One step of the model is one iteration of the doRequestWithRetry loop   *)
(* (one httpClient.Do and what the loop does with its outcome) or the code *)
(* that runs between the return of doRequestWithRetry and the next request *)
(* (the rest of the client operation, the part of its caller up to the     *)
(* next client call).  The services are the environment: every outcome of  *)
(* httpClient.Do is chosen freely at the moment of the request.            *)
(*                                                                         *)
(* Durations are in milliseconds (the code counts nanoseconds).            *)
(***************************************************************************)
EXTENDS Integers, Sequences, FiniteSets, TLC

(***************************************************************************)
(* Bounds of the model.                                                    *)
(***************************************************************************)
\* folders the source lists in one run
MaxCollections == 2
\* items the source serves for one folder during a run of RunImport
MaxFolderItems == 2
\* items the source serves to one stand-alone GetRaindropsByCollection call
MaxItems == 3
\* goroutines that call one client at the same time
MaxGoroutines == 2

\* the most items one listing of the destination holds
MaxDestItems == 2

\* the page index up to which a source without an end serves non-empty pages
MaxPages == 3

(***************************************************************************)
(* Program constants.                                                      *)
(***************************************************************************)
maxRetries == 5
baseDelay == 1000
perpage == 50
StatusOK == 200
StatusCreated == 201
StatusNoContent == 204
StatusNotFound == 404
StatusTooManyRequests == 429
StatusInternalServerError == 500

\* the statuses the services answer with
Statuses ==
  {StatusOK, StatusCreated, StatusNotFound, StatusTooManyRequests,
   StatusInternalServerError}

\* resp.Status, the status line of a response
StatusLine(status) ==
  CASE status = StatusOK -> "200 OK"
    [] status = StatusCreated -> "201 Created"
    [] status = StatusNoContent -> "204 No Content"
    [] status = StatusNotFound -> "404 Not Found"
    [] status = StatusTooManyRequests -> "429 Too Many Requests"
    [] status = StatusInternalServerError -> "500 Internal Server Error"
    [] OTHER -> "000"

\* the nil error
Nil == "<nil>"

\* errors of httpClient.Do itself (no response)
TransportErrors == {"dial tcp: connection refused"}

\* error of json.Decoder.Decode on a body that is not the expected JSON
DecodeError == "invalid character"

\* values of rand.Float64(), in thousandths; the generator yields [0, 1)
RandFloats == {0, 500, 999}

(***************************************************************************)
(* Data.                                                                   *)
(***************************************************************************)
\* raindrop.Collection values the source may list: the unsorted folder 0 and
\* a folder with the same title; a listing may repeat either
CollectionSet == {[ID |-> 0, Title |-> "Unsorted"], [ID |-> 1, Title |-> "Unsorted"]}

\* raindrop.Raindrop values the source may serve: B has only zero values,
\* C has the link and the title of A
RaindropA ==
  [ID |-> 101, Title |-> "A", Excerpt |-> "about a", Link |-> "https://a.example",
   Tags |-> <<"x", "y">>]
RaindropB == [ID |-> 102, Title |-> "", Excerpt |-> "", Link |-> "", Tags |-> <<>>]
RaindropC ==
  [ID |-> 103, Title |-> "A", Excerpt |-> "", Link |-> "https://a.example",
   Tags |-> <<>>]

\* ids the destination assigns; a 201 response may also carry no id
ListIDs == {"", "list-1"}
BookmarkIDs == {"", "bookmark-1"}

SeqsUpTo(S, n) == UNION {[1..k -> S] : k \in 0..n}

\* response bodies: decodable JSON holding a value, or anything else
Json(v) == [kind |-> "json", val |-> v]
Malformed == [kind |-> "malformed", val |-> <<>>]
NoBody == [kind |-> "none", val |-> <<>>]

NilResp == [status |-> 0, body |-> NoBody]
NoRet == [resp |-> NilResp, err |-> "<none>"]
\* a request body that has been read to its end
Drained == [kind |-> "drained", val |-> <<>>]

\* no request built
NoTransport == [unread |-> NoBody, receivedBody |-> NoBody, open |-> 0, closes |-> 0]

\* a response that has no Retry-After header
NoRetryAfter == <<"<unset>">>

NoOutcome ==
  [kind |-> "none", status |-> 0, body |-> NoBody, err |-> Nil,
   retryAfter |-> NoRetryAfter]

VARIABLES
  entry,            \* the operation the program was started at
  pc,               \* the client operation in progress, "idle" or "done"
  req,              \* the request the operation built
  rs,               \* doRequestWithRetry: "loop" or "returned"
  attempt,          \* doRequestWithRetry: the loop counter
  ret,              \* doRequestWithRetry: what it returned
  lastDo,           \* outcome of the latest httpClient.Do of this call
  nreq,             \* requests sent by this doRequestWithRetry call
  n429,             \* 429 responses received by this call
  nsleep,           \* sleeper.Sleep calls of this call
  lastSleep,        \* duration of the sleeper.Sleep before the pending attempt
  collectionID,     \* GetRaindropsByCollection: its argument
  page,             \* GetRaindropsByCollection: page
  allRaindrops,     \* GetRaindropsByCollection: allRaindrops
  served,           \* pages decoded by this GetRaindropsByCollection call
  fetches,          \* page indices requested by this call, in order
  readRet,          \* what GetRaindropsByCollection returned to the program
  opRet,            \* what another client operation returned to the program
  collections,      \* RunImport: collections
  collectionMap,    \* RunImport: collectionMap
  ci,               \* RunImport: position of the collection loops (1-based)
  raindrops,        \* RunImport: raindrops
  listID,           \* RunImport: listID
  ri,               \* RunImport: position of the raindrop loop (1-based)
  createdBookmark,  \* RunImport: createdBookmark
  attempted,        \* bookmarks passed to CreateBookmark for the current folder
  created,          \* whether each of these CreateBookmark calls succeeded
  pending,          \* items fetched and not yet passed to CreateBookmark
  called,           \* client operations called so far
  gotCollections,   \* GetCollections returned without error
  runErr,           \* what RunImport returned
  token,            \* Client.token
  authHeader,       \* Authorization header of the request the operation built
  receivedAuth,     \* Authorization header of the latest request, as received
  endpoint,         \* how the server of the concurrent calls answers
  threads,          \* doRequestWithRetry state of each concurrent call
  process,          \* main: environment, configuration, exit status, fatal log line
  cleanup,          \* test-data cleanup: prefix, listings, position, delete attempts
  transport,        \* what req.Body still holds, what the server received last,
                    \* response bodies open, Close calls on the latest response
  tally             \* where the log is kept: failure entries RunImport logged,
                    \* calls of RunImport that returned an error it goes on after

vars ==
  <<entry, pc, req, rs, attempt, ret, lastDo, nreq, n429, nsleep, lastSleep,
    collectionID, page, allRaindrops, served, fetches, readRet, opRet,
    collections,
    collectionMap, ci, raindrops, listID, ri, createdBookmark, attempted,
    created, pending, called, gotCollections, runErr, token, authHeader,
    receivedAuth, endpoint, threads, process, cleanup, transport,
    tally>>

\* the state as one record, so that code is translated as a function on it
Cur ==
  [entry |-> entry, pc |-> pc, req |-> req, rs |-> rs, attempt |-> attempt,
   ret |-> ret, lastDo |-> lastDo, nreq |-> nreq, n429 |-> n429,
   nsleep |-> nsleep, lastSleep |-> lastSleep, collectionID |-> collectionID,
   page |-> page, allRaindrops |-> allRaindrops, served |-> served,
   fetches |-> fetches, readRet |-> readRet, opRet |-> opRet,
   collections |-> collections,
   collectionMap |-> collectionMap, ci |-> ci, raindrops |-> raindrops,
   listID |-> listID, ri |-> ri, createdBookmark |-> createdBookmark,
   attempted |-> attempted, created |-> created, pending |-> pending,
   called |-> called,
   gotCollections |-> gotCollections, runErr |-> runErr, token |-> token,
   authHeader |-> authHeader, receivedAuth |-> receivedAuth,
   endpoint |-> endpoint, threads |-> threads, process |-> process,
   cleanup |-> cleanup, transport |-> transport, tally |-> tally]

Apply(s) ==
  /\ entry' = s.entry /\ pc' = s.pc /\ req' = s.req /\ rs' = s.rs
  /\ attempt' = s.attempt /\ ret' = s.ret /\ lastDo' = s.lastDo
  /\ nreq' = s.nreq /\ n429' = s.n429 /\ nsleep' = s.nsleep
  /\ lastSleep' = s.lastSleep /\ collectionID' = s.collectionID
  /\ page' = s.page /\ allRaindrops' = s.allRaindrops /\ served' = s.served
  /\ fetches' = s.fetches /\ readRet' = s.readRet /\ opRet' = s.opRet
  /\ collections' = s.collections /\ collectionMap' = s.collectionMap
  /\ ci' = s.ci /\ raindrops' = s.raindrops /\ listID' = s.listID
  /\ ri' = s.ri /\ createdBookmark' = s.createdBookmark
  /\ attempted' = s.attempted /\ created' = s.created
  /\ pending' = s.pending /\ called' = s.called
  /\ gotCollections' = s.gotCollections /\ runErr' = s.runErr
  /\ token' = s.token /\ authHeader' = s.authHeader
  /\ receivedAuth' = s.receivedAuth
  /\ endpoint' = s.endpoint /\ threads' = s.threads /\ process' = s.process
  /\ cleanup' = s.cleanup
  /\ transport' = s.transport
  /\ tally' = s.tally

NilBookmark ==
  [ID |-> "", URL |-> "", Title |-> "", Description |-> "", Tags |-> <<>>]
NoReadRet == [items |-> <<>>, err |-> "<none>"]
NoOpRet == [val |-> <<>>, err |-> "<none>"]
\* the nil *Bookmark or *List
NilPointer == [nil |-> TRUE]

\* strings that go into a header are sequences of characters
\* the token the tests construct the clients with: "test-token"
DefaultToken == <<"t", "e", "s", "t", "-", "t", "o", "k", "e", "n">>

\* tokens a client may be given: none, the usual one, special characters,
\* a character outside ASCII
Tokens == {<<>>, DefaultToken, <<"!", "@", "#", "$">>, <<"t", "U+2211">>}

\* no header
NoHeader == <<"<unset>">>

\* an environment variable that is not set
Unset == <<"<unset>">>

\* no cleanup registered
NoCleanup ==
  [testPrefix |-> <<>>, skip |-> FALSE, bookmarks |-> <<>>, lists |-> <<>>,
   i |-> 0, attempts |-> <<>>, deletedCount |-> 0,
   bookmarksErr |-> "<none>", listsErr |-> "<none>"]

\* a process that has not started main
NoProcess ==
  [env |-> <<>>, cfg |-> [RaindropToken |-> <<>>, KarakeepToken |-> <<>>],
   status |-> "none", exit |-> 0, fatal |-> "<none>"]

\* a fresh client holding token tk, about to be used for e
InitWith(e, tk) ==
  /\ entry = e /\ pc = "idle" /\ req = [op |-> "none"] /\ rs = "returned"
  /\ attempt = 0 /\ ret = NoRet /\ lastDo = NoOutcome
  /\ nreq = 0 /\ n429 = 0 /\ nsleep = 0 /\ lastSleep = 0
  /\ collectionID = 0 /\ page = 0 /\ allRaindrops = <<>> /\ served = <<>>
  /\ fetches = <<>> /\ readRet = NoReadRet /\ opRet = NoOpRet
  /\ collections = <<>> /\ collectionMap = <<>> /\ ci = 0
  /\ raindrops = <<>> /\ listID = "" /\ ri = 0
  /\ createdBookmark = NilBookmark /\ attempted = <<>> /\ created = <<>> /\ pending = 0
  /\ called = {}
  /\ gotCollections = FALSE /\ runErr = "<none>"
  /\ token = tk /\ authHeader = NoHeader /\ receivedAuth = NoHeader
  /\ endpoint = "none" /\ threads = <<>> /\ process = NoProcess
  /\ cleanup = NoCleanup
  /\ transport = NoTransport

\* the log is not kept
NoTally == [on |-> FALSE, logged |-> 0, failed |-> 0]

InitAt(e) == InitWith(e, DefaultToken) /\ tally = NoTally

(***************************************************************************)
(* doRequestWithRetry (the same code in both clients).                     *)
(***************************************************************************)
\* "Bearer "
Bearer == <<"B", "e", "a", "r", "e", "r", " ">>

\* variant: no header value for a client without a token
AuthorizationSkippingEmpty(tk) == IF tk = <<>> THEN <<>> ELSE Bearer \o tk

\* req.Header.Set("Authorization", "Bearer "+c.token)
Authorization(tk) == Bearer \o tk

IsSpace(c) == c \in {" ", "\t"}

RECURSIVE TrimLeft(_)
TrimLeft(v) == IF v # <<>> /\ IsSpace(Head(v)) THEN TrimLeft(Tail(v)) ELSE v

RECURSIVE TrimRight(_)
TrimRight(v) ==
  IF v # <<>> /\ IsSpace(v[Len(v)]) THEN TrimRight(SubSeq(v, 1, Len(v) - 1)) ELSE v

\* a header value as net/http writes it to the connection and the server
\* reads it: without leading and trailing white space
WireValue(v) == TrimRight(TrimLeft(v))

\* json.Marshal of the value an operation posts; a GET has no body
RequestBody(r) ==
  CASE r.op = "CreateBookmark" -> Json(r.bookmark)
    [] r.op = "CreateList" -> Json(r.list)
    [] OTHER -> NoBody

\* req.GetBody, set by http.NewRequest for a bytes.Buffer: a new reader over
\* the bytes the buffer held when the request was built
GetBody(r) == RequestBody(r)

\* the error of a send whose body is shorter than the Content-Length header
ContentLengthError == "http: ContentLength=N with Body length 0"

\* httpClient.Do has sent the request of s: the transport writes what
\* req.Body holds, and that reads the body to its end; a send that finds the
\* body drained succeeds only where the transport rewinds it with GetBody
Sent(s) ==
  [s EXCEPT !.receivedAuth = WireValue(s.authHeader),
            !.transport.receivedBody =
               IF s.transport.unread = Drained THEN GetBody(s.req)
               ELSE s.transport.unread,
            !.transport.unread =
               IF s.transport.unread = NoBody THEN NoBody ELSE Drained]

\* the apiToken of the client an operation belongs to: main gives each
\* client its token of the configuration
APIToken(s, op) ==
  IF s.entry # "main" THEN s.token
  ELSE IF op \in {"GetCollections", "GetRaindropsByCollection"}
       THEN s.process.cfg.RaindropToken
       ELSE s.process.cfg.KarakeepToken

\* variant: the loop counter lives in the client and is kept from call to call
StartCallKeepingAttempt(s, op, r) ==
  [s EXCEPT !.pc = op, !.req = r, !.rs = "loop", !.ret = NoRet,
            !.lastDo = NoOutcome, !.nreq = 0, !.n429 = 0, !.nsleep = 0,
            !.lastSleep = 0, !.called = @ \cup {op},
            !.authHeader = Authorization(APIToken(s, op)),
            !.receivedAuth = NoHeader,
            !.transport.unread = RequestBody(r),
            !.transport.receivedBody = NoBody, !.transport.closes = 0]

\* a client operation sets the header of its request and hands it to
\* doRequestWithRetry
StartCall(s, op, r) ==
  [s EXCEPT !.pc = op, !.req = r, !.rs = "loop", !.attempt = 0, !.ret = NoRet,
            !.lastDo = NoOutcome, !.nreq = 0, !.n429 = 0, !.nsleep = 0,
            !.lastSleep = 0, !.called = @ \cup {op},
            !.authHeader = Authorization(APIToken(s, op)),
            !.receivedAuth = NoHeader,
            !.transport.unread = RequestBody(r),
            !.transport.receivedBody = NoBody, !.transport.closes = 0]

\* variant: every status from 429 up is taken for a rate limit
IsRateLimitedOrAbove(status) == status >= StatusTooManyRequests

\* resp.StatusCode != http.StatusTooManyRequests, negated
IsRateLimited(status) == status = StatusTooManyRequests

\* variant: the attempt after the last one is taken for the last
IsLastAttemptLate(a) == a = maxRetries + 1

\* variant: the loop gives up one attempt early
IsLastAttemptEarly(a) == a = maxRetries - 1

\* attempt == maxRetries
IsLastAttempt(a) == a = maxRetries

\* variant: the delay grows linearly
BackoffDelayLinear(a) == baseDelay * (a + 1)

\* delay := baseDelay * time.Duration(1<<uint(attempt))
BackoffDelay(a) == baseDelay * 2^a

\* variant: a jitter of up to 10% in either direction
JitterSigned(delay, f) == ((2 * f - 1000) * delay) \div 10000

\* jitter := time.Duration(rand.Float64() * float64(delay) * 0.1), truncated
Jitter(delay, f) == (f * delay) \div 10000

RateLimitError(status) ==
  "rate limited after " \o ToString(maxRetries) \o " retries: " \o StatusLine(status)

InLoop == pc \notin {"idle", "done"} /\ rs = "loop" /\ attempt <= maxRetries

\* variant: the loop ends one iteration early
LoopConditionShort(a) == a < maxRetries

\* for attempt := 0; attempt <= maxRetries; attempt++
LoopCondition(a) == a <= maxRetries

ErrOutcome(e) ==
  [kind |-> "error", status |-> 0, body |-> NoBody, err |-> e,
   retryAfter |-> NoRetryAfter]
RespOutcome(status, body) ==
  [kind |-> "resp", status |-> status, body |-> body, err |-> Nil,
   retryAfter |-> NoRetryAfter]

Returned(s, resp, err) ==
  [s EXCEPT !.ret = [resp |-> resp, err |-> err], !.rs = "returned"]

\* variant: a transport error is retried like a 429
RetryStepRetryingErrors(s, o, f) ==
  LET sent ==
        [s EXCEPT !.nreq = @ + 1, !.lastDo = o, !.lastSleep = 0,
                  !.n429 = IF o.kind = "resp" /\ o.status = StatusTooManyRequests
                           THEN @ + 1 ELSE @]
      delay == BackoffDelay(s.attempt)
      slept ==
        [sent EXCEPT !.nsleep = @ + 1, !.lastSleep = delay + Jitter(delay, f),
                     !.attempt = @ + 1]
  IN  IF o.kind = "resp" /\ ~IsRateLimited(o.status)
        THEN Returned(sent, [status |-> o.status, body |-> o.body], Nil)
      ELSE IF IsLastAttempt(s.attempt)
        THEN Returned(sent, NilResp,
                      IF o.kind = "error" THEN o.err ELSE RateLimitError(o.status))
      ELSE slept

\* variant: a Retry-After header that holds seconds sets the delay
RetryStepHonouringRetryAfter(s, o, f) ==
  LET sent ==
        [s EXCEPT !.nreq = @ + 1, !.lastDo = o, !.lastSleep = 0,
                  !.n429 = IF o.kind = "resp" /\ o.status = StatusTooManyRequests
                           THEN @ + 1 ELSE @]
      delay == BackoffDelay(s.attempt)
      sleepDuration == IF o.retryAfter = <<"2">> THEN 2000
                       ELSE delay + Jitter(delay, f)
      slept ==
        [sent EXCEPT !.nsleep = @ + 1, !.lastSleep = sleepDuration,
                     !.attempt = @ + 1]
  IN  IF o.kind = "error" THEN Returned(sent, NilResp, o.err)
      ELSE IF ~IsRateLimited(o.status)
        THEN Returned(sent, [status |-> o.status, body |-> o.body], Nil)
      ELSE IF IsLastAttempt(s.attempt)
        THEN Returned(sent, NilResp, RateLimitError(o.status))
      ELSE IF LoopCondition(slept.attempt) THEN slept
      ELSE Returned(slept, NilResp, "unexpected error in retry logic")

\* one iteration of the loop: httpClient.Do answered o, rand.Float64() gave f
RetryStep(s, o, f) ==
  LET sent ==
        [s EXCEPT !.nreq = @ + 1, !.lastDo = o, !.lastSleep = 0,
                  !.n429 = IF o.kind = "resp" /\ o.status = StatusTooManyRequests
                           THEN @ + 1 ELSE @]
      delay == BackoffDelay(s.attempt)
      sleepDuration == delay + Jitter(delay, f)
      slept ==
        [sent EXCEPT !.nsleep = @ + 1, !.lastSleep = sleepDuration,
                     !.attempt = @ + 1]
  IN  IF o.kind = "error" THEN Returned(sent, NilResp, o.err)
      ELSE IF ~IsRateLimited(o.status)
        THEN Returned(sent, [status |-> o.status, body |-> o.body], Nil)
      ELSE IF IsLastAttempt(s.attempt)
        THEN Returned(sent, NilResp, RateLimitError(o.status))
      ELSE IF LoopCondition(slept.attempt) THEN slept
      ELSE Returned(slept, NilResp, "unexpected error in retry logic")

\* httpClient.Do has returned a response: its body is open; doRequestWithRetry
\* closes the body of a 429 response before anything else
Received(s) ==
  IF IsRateLimited(s.lastDo.status)
  THEN [s EXCEPT !.transport.closes = 1]
  ELSE [s EXCEPT !.transport.open = @ + 1, !.transport.closes = 0]

\* variant: the body is closed on the success path only
CloseBodyOnSuccessOnly(s) ==
  IF s.ret.err = Nil /\ s.ret.resp.status \in {StatusOK, StatusCreated}
  THEN [s EXCEPT !.transport.open = @ - 1, !.transport.closes = @ + 1]
  ELSE s

\* defer resp.Body.Close() of an operation that was handed a response
CloseBody(s) ==
  IF s.ret.err = Nil
  THEN [s EXCEPT !.transport.open = @ - 1, !.transport.closes = @ + 1]
  ELSE s

(***************************************************************************)
(* The client operations: what each does with doRequestWithRetry's result. *)
(***************************************************************************)
\* raindrop.Client.GetCollections
GetCollectionsResult(r) ==
  IF r.err # Nil THEN [val |-> <<>>, err |-> r.err]
  ELSE IF r.resp.status # StatusOK
    THEN [val |-> <<>>,
          err |-> "failed to get collections: " \o StatusLine(r.resp.status)]
  ELSE IF r.resp.body.kind # "json" THEN [val |-> <<>>, err |-> DecodeError]
  ELSE [val |-> r.resp.body.val, err |-> Nil]

\* one page of raindrop.Client.GetRaindropsByCollection
PageResult(r) ==
  IF r.err # Nil THEN [val |-> <<>>, err |-> r.err]
  ELSE IF r.resp.status # StatusOK
    THEN [val |-> <<>>,
          err |-> "failed to get raindrops: " \o StatusLine(r.resp.status)]
  ELSE IF r.resp.body.kind # "json" THEN [val |-> <<>>, err |-> DecodeError]
  ELSE [val |-> r.resp.body.val, err |-> Nil]

\* variant: the body is decoded before the status is looked at
CreateListResultDecodeFirst(r) ==
  IF r.err # Nil THEN [val |-> NilPointer, err |-> r.err]
  ELSE IF r.resp.body.kind # "json" THEN [val |-> NilPointer, err |-> DecodeError]
  ELSE IF r.resp.status # StatusCreated
    THEN [val |-> NilPointer,
          err |-> "failed to create list: " \o StatusLine(r.resp.status)]
  ELSE [val |-> r.resp.body.val, err |-> Nil]

\* karakeep.Client.CreateList
CreateListResult(r) ==
  IF r.err # Nil THEN [val |-> NilPointer, err |-> r.err]
  ELSE IF r.resp.status # StatusCreated
    THEN [val |-> NilPointer,
          err |-> "failed to create list: " \o StatusLine(r.resp.status)]
  ELSE IF r.resp.body.kind # "json" THEN [val |-> NilPointer, err |-> DecodeError]
  ELSE [val |-> r.resp.body.val, err |-> Nil]

\* variant: any 2xx status is taken for success
CreateBookmarkResultAny2xx(r) ==
  IF r.err # Nil THEN [val |-> NilPointer, err |-> r.err]
  ELSE IF r.resp.status \notin {StatusOK, StatusCreated}
    THEN [val |-> NilPointer,
          err |-> "failed to create bookmark: " \o StatusLine(r.resp.status)]
  ELSE IF r.resp.body.kind # "json" THEN [val |-> NilPointer, err |-> DecodeError]
  ELSE [val |-> r.resp.body.val, err |-> Nil]

\* karakeep.Client.CreateBookmark
CreateBookmarkResult(r) ==
  IF r.err # Nil THEN [val |-> NilPointer, err |-> r.err]
  ELSE IF r.resp.status # StatusCreated
    THEN [val |-> NilPointer,
          err |-> "failed to create bookmark: " \o StatusLine(r.resp.status)]
  ELSE IF r.resp.body.kind # "json" THEN [val |-> NilPointer, err |-> DecodeError]
  ELSE [val |-> r.resp.body.val, err |-> Nil]

\* karakeep.Client.AddBookmarkToList
AddBookmarkToListResult(r) ==
  IF r.err # Nil THEN r.err
  ELSE IF r.resp.status # StatusOK
    THEN "failed to add bookmark to list: " \o StatusLine(r.resp.status)
  ELSE Nil

\* what the operation in progress returns to its caller
OperationResult(s) ==
  CASE s.pc = "GetCollections" -> GetCollectionsResult(s.ret)
    [] s.pc = "CreateList" -> CreateListResult(s.ret)
    [] s.pc = "CreateBookmark" -> CreateBookmarkResult(s.ret)
    [] s.pc = "AddBookmarkToList" ->
         [val |-> <<>>, err |-> AddBookmarkToListResult(s.ret)]

\* GET %s/raindrops/%d?page=%d&perpage=50
PageRequest(id, p) ==
  [op |-> "GetRaindropsByCollection", collectionID |-> id, page |-> p,
   perpage |-> perpage]

\* the loop body up to doRequestWithRetry: the request for page s.page
FetchPage(s) ==
  LET r == PageRequest(s.collectionID, s.page)
  IN  StartCall([s EXCEPT !.fetches = Append(@, r.page)],
                "GetRaindropsByCollection", r)

\* GetRaindropsByCollection starts: allRaindrops is nil, page is 0
StartReader(s, id) ==
  FetchPage([s EXCEPT !.collectionID = id, !.page = 0, !.allRaindrops = <<>>,
                      !.served = <<>>, !.fetches = <<>>])

(***************************************************************************)
(* Importer.RunImport.                                                     *)
(***************************************************************************)
\* return of RunImport
Return(s, e) == [s EXCEPT !.pc = "done", !.runErr = e]

\* log.Printf("Failed to ...: %v", ..., err)
Logf(s) == IF s.tally.on THEN [s EXCEPT !.tally.logged = @ + 1] ELSE s

\* a call of RunImport has returned err to it
CountFailure(s, err) ==
  IF s.tally.on /\ err # Nil THEN [s EXCEPT !.tally.failed = @ + 1] ELSE s

\* collectionMap[k] = v
MapPut(m, k, v) == [x \in DOMAIN m \cup {k} |-> IF x = k THEN v ELSE m[x]]

\* collectionMap[k], the zero value when k has no entry
MapGet(m, k) == IF k \in DOMAIN m THEN m[k] ELSE ""

\* variant: an item without a title gets its link as title, an item without a
\* link a placeholder
ToBookmarkDefaulting(raindrop) ==
  [ID |-> "",
   URL |-> IF raindrop.Link = "" THEN "about:blank" ELSE raindrop.Link,
   Title |-> IF raindrop.Title = "" THEN raindrop.Link ELSE raindrop.Title,
   Description |-> raindrop.Excerpt, Tags |-> raindrop.Tags]

\* bookmark := &karakeep.Bookmark{...}
ToBookmark(raindrop) ==
  [ID |-> "", URL |-> raindrop.Link, Title |-> raindrop.Title,
   Description |-> raindrop.Excerpt, Tags |-> raindrop.Tags]

\* step 3, head of the collection loop at position c
ImportFolder(s, c) ==
  LET s1 == [s EXCEPT !.ci = c, !.raindrops = <<>>, !.listID = "", !.ri = 0,
                      !.attempted = <<>>, !.created = <<>>,
                      !.createdBookmark = NilBookmark]
  IN  IF c > Len(s.collections) THEN Return(s1, Nil)
      ELSE StartReader(s1, s.collections[c].ID)

\* step 3, head of the raindrop loop at position r
ImportItem(s, r) ==
  IF r > Len(s.raindrops) THEN ImportFolder(s, s.ci + 1)
  ELSE LET bookmark == ToBookmark(s.raindrops[r])
       IN  StartCall([s EXCEPT !.ri = r, !.createdBookmark = NilBookmark,
                                !.attempted = Append(@, bookmark),
                                !.pending = @ - 1],
                     "CreateBookmark",
                     [op |-> "CreateBookmark", bookmark |-> bookmark])

\* step 2, head of the collection loop at position c
CreateLists(s, c) ==
  IF c > Len(s.collections) THEN ImportFolder(s, 1)
  ELSE StartCall([s EXCEPT !.ci = c], "CreateList",
                 [op |-> "CreateList",
                  list |-> [ID |-> "", Name |-> s.collections[c].Title]])

\* variant: a failed folder listing is taken for an empty one
OnGetCollectionsLenient(s, res) ==
  CreateLists([s EXCEPT !.collections = res.val,
                        !.gotCollections = (res.err = Nil),
                        !.collectionMap = <<>>], 1)

\* variant: an empty folder listing is an error
OnGetCollectionsEmptyIsError(s, res) ==
  IF res.err # Nil THEN Return(s, "failed to get collections: " \o res.err)
  ELSE IF res.val = <<>>
  THEN Return([s EXCEPT !.gotCollections = TRUE], "no collections found")
  ELSE CreateLists([s EXCEPT !.collections = res.val, !.gotCollections = TRUE,
                             !.collectionMap = <<>>], 1)

\* step 1, after GetCollections
OnGetCollections(s, res) ==
  IF res.err # Nil THEN Return(s, "failed to get collections: " \o res.err)
  ELSE CreateLists([s EXCEPT !.collections = res.val, !.gotCollections = TRUE,
                             !.collectionMap = <<>>], 1)

\* variant: a failed CreateList ends the folder-creation phase
OnCreateListAbort(s, res) ==
  IF res.err # Nil THEN ImportFolder(s, 1)
  ELSE CreateLists([s EXCEPT !.collectionMap =
                               MapPut(@, s.collections[s.ci].ID, res.val.ID)],
                   s.ci + 1)

\* variant: the items of a folder are fetched right after its list was
\* created
OnCreateListThenFetch(s, res) ==
  IF res.err # Nil THEN CreateLists(s, s.ci + 1)
  ELSE ImportFolder([s EXCEPT !.collectionMap =
                                MapPut(@, s.collections[s.ci].ID, res.val.ID)],
                    s.ci)

\* variant: a folder whose list was not created is mapped to the empty id
OnCreateListMapAlways(s, res) ==
  CreateLists([s EXCEPT !.collectionMap =
                          MapPut(@, s.collections[s.ci].ID,
                                 IF res.err # Nil THEN "" ELSE res.val.ID)],
              s.ci + 1)

\* step 2, after CreateList
OnCreateList(s, res) ==
  IF res.err # Nil THEN CreateLists(Logf(s), s.ci + 1)
  ELSE CreateLists([s EXCEPT !.collectionMap =
                               MapPut(@, s.collections[s.ci].ID, res.val.ID)],
                   s.ci + 1)

\* variant: the items of a folder without a mapping entry are not imported
OnGetRaindropsMappedOnly(s, rr) ==
  IF rr.err # Nil \/ s.collections[s.ci].ID \notin DOMAIN s.collectionMap
  THEN ImportFolder(s, s.ci + 1)
  ELSE ImportItem([s EXCEPT !.raindrops = rr.items,
                            !.listID = MapGet(s.collectionMap,
                                              s.collections[s.ci].ID),
                            !.pending = @ + Len(rr.items)], 1)

\* variant: a failed item fetch ends the run with its error
OnGetRaindropsFatal(s, rr) ==
  IF rr.err # Nil THEN Return(s, rr.err)
  ELSE ImportItem([s EXCEPT !.raindrops = rr.items,
                            !.listID = MapGet(s.collectionMap,
                                              s.collections[s.ci].ID),
                            !.pending = @ + Len(rr.items)], 1)

\* step 3, after GetRaindropsByCollection
OnGetRaindrops(s, rr) ==
  IF rr.err # Nil THEN ImportFolder(Logf(s), s.ci + 1)
  ELSE ImportItem([s EXCEPT !.raindrops = rr.items,
                            !.listID = MapGet(s.collectionMap,
                                              s.collections[s.ci].ID),
                            !.pending = @ + Len(rr.items)], 1)

\* variant: a created bookmark is not linked
OnCreateBookmarkNoLink(s, res) ==
  IF res.err # Nil THEN ImportItem([s EXCEPT !.created = Append(@, FALSE)], s.ri + 1)
  ELSE ImportItem([s EXCEPT !.createdBookmark = res.val,
                            !.created = Append(@, TRUE)], s.ri + 1)

\* variant: the link call is made whether or not the create succeeded
OnCreateBookmarkAlwaysLink(s, res) ==
  LET b == IF res.err # Nil THEN s.req.bookmark ELSE res.val
  IN  StartCall([s EXCEPT !.createdBookmark = b,
                          !.created = Append(@, res.err = Nil)],
                "AddBookmarkToList",
                [op |-> "AddBookmarkToList", bookmarkID |-> b.ID,
                 listID |-> s.listID])

\* variant: a failed create ends the folder
OnCreateBookmarkAbort(s, res) ==
  IF res.err # Nil
  THEN ImportFolder([s EXCEPT !.created = Append(@, FALSE)], s.ci + 1)
  ELSE StartCall([s EXCEPT !.createdBookmark = res.val,
                           !.created = Append(@, TRUE)], "AddBookmarkToList",
                 [op |-> "AddBookmarkToList", bookmarkID |-> res.val.ID,
                  listID |-> s.listID])

\* step 3, after CreateBookmark
OnCreateBookmark(s, res) ==
  IF res.err # Nil
  THEN ImportItem(Logf([s EXCEPT !.created = Append(@, FALSE)]), s.ri + 1)
  ELSE StartCall([s EXCEPT !.createdBookmark = res.val,
                           !.created = Append(@, TRUE)], "AddBookmarkToList",
                 [op |-> "AddBookmarkToList", bookmarkID |-> res.val.ID,
                  listID |-> s.listID])

\* variant: a failed link is returned to the caller of RunImport
OnAddBookmarkToListStrict(s, err) ==
  IF err # Nil THEN Return(s, "failed to add bookmark to list: " \o err)
  ELSE ImportItem(s, s.ri + 1)

\* variant: a failed link is passed over in silence
OnAddBookmarkToListSilent(s, err) == ImportItem(s, s.ri + 1)

\* step 3, after AddBookmarkToList: a failure is logged, the loop goes on
OnAddBookmarkToList(s, err) ==
  IF err # Nil THEN ImportItem(Logf(s), s.ri + 1)
  ELSE ImportItem(s, s.ri + 1)

(***************************************************************************)
(* GetRaindropsByCollection: the page loop.                                *)
(***************************************************************************)
\* return of GetRaindropsByCollection, to RunImport when it is the caller
ReaderReturn(s, items, err) ==
  LET rr == [items |-> items, err |-> err]
      s1 == [s EXCEPT !.page = 0, !.allRaindrops = <<>>]
  IN  IF s.entry = "RunImport" THEN OnGetRaindrops(s1, rr)
      ELSE [s1 EXCEPT !.pc = "done", !.readRet = rr]

\* variant: a page that needed a retry is counted twice
OnPageSkipAfterRetry(s, res) ==
  IF res.err # Nil THEN ReaderReturn(s, <<>>, res.err)
  ELSE LET s1 == [s EXCEPT !.served = Append(@, res.val)]
       IN  IF Len(res.val) = 0 THEN ReaderReturn(s1, s.allRaindrops, Nil)
           ELSE FetchPage([s1 EXCEPT !.allRaindrops = @ \o res.val,
                                     !.page = IF s.n429 > 0 THEN @ + 2 ELSE @ + 1])

\* variant: a page with a single item is taken for the last one
OnPageShortStop(s, res) ==
  IF res.err # Nil THEN ReaderReturn(s, <<>>, res.err)
  ELSE LET s1 == [s EXCEPT !.served = Append(@, res.val)]
       IN  IF Len(res.val) < 2
           THEN ReaderReturn(s1, s.allRaindrops \o res.val, Nil)
           ELSE FetchPage([s1 EXCEPT !.allRaindrops = @ \o res.val,
                                     !.page = @ + 1])

\* variant: a failing page returns the items read so far with the error
OnPagePartial(s, res) ==
  IF res.err # Nil THEN ReaderReturn(s, s.allRaindrops, res.err)
  ELSE LET s1 == [s EXCEPT !.served = Append(@, res.val)]
       IN  IF Len(res.val) = 0 THEN ReaderReturn(s1, s.allRaindrops, Nil)
           ELSE FetchPage([s1 EXCEPT !.allRaindrops = @ \o res.val,
                                     !.page = @ + 1])

\* variant: the loop gives up after two pages
OnPageLimited(s, res) ==
  IF res.err # Nil THEN ReaderReturn(s, <<>>, res.err)
  ELSE LET s1 == [s EXCEPT !.served = Append(@, res.val)]
       IN  IF Len(res.val) = 0 THEN ReaderReturn(s1, s.allRaindrops, Nil)
           ELSE IF s.page >= 1
             THEN ReaderReturn(s1, s.allRaindrops \o res.val, Nil)
           ELSE FetchPage([s1 EXCEPT !.allRaindrops = @ \o res.val,
                                     !.page = @ + 1])

\* the loop body after doRequestWithRetry returned
OnPage(s, res) ==
  IF res.err # Nil THEN ReaderReturn(s, <<>>, res.err)
  ELSE LET s1 == [s EXCEPT !.served = Append(@, res.val)]
       IN  IF Len(res.val) = 0 THEN ReaderReturn(s1, s.allRaindrops, Nil)
           ELSE FetchPage([s1 EXCEPT !.allRaindrops = @ \o res.val,
                                     !.page = @ + 1])

(***************************************************************************)
(* The services.                                                           *)
(***************************************************************************)
\* the titles and names of the destination's content
TitleSet == {<<"T", "_", "a">>, <<"a", "T", "_">>, <<"T">>}

\* what GET /bookmarks may list
DestBookmarks ==
  UNION {{[k \in 1..n |-> [ID |-> "b" \o ToString(k), Title |-> f[k]]] :
            f \in [1..n -> TitleSet]} : n \in 0..MaxDestItems}

\* what GET /lists may list
DestLists ==
  UNION {{[k \in 1..n |-> [ID |-> "l" \o ToString(k), Name |-> f[k]]] :
            f \in [1..n -> TitleSet]} : n \in 0..MaxDestItems}

\* the items a page may hold: the source serves a bounded number per folder
PageItems(s) ==
  IF s.entry = "Pagination"
  THEN IF s.page < MaxPages THEN {<<>>, <<RaindropA>>, <<RaindropA, RaindropB>>}
       ELSE {<<>>}
  ELSE IF s.entry = "RunImport"
  THEN SeqsUpTo({RaindropA, RaindropB}, MaxFolderItems - Len(s.allRaindrops))
  ELSE SeqsUpTo({RaindropA, RaindropB, RaindropC}, MaxItems - Len(s.allRaindrops))

\* the bodies a service may send with a 2xx answer to the request of s
Bodies(s) ==
  CASE s.pc = "GetCollections" ->
         {Malformed} \cup {Json(c) : c \in SeqsUpTo(CollectionSet, MaxCollections)}
    [] s.pc = "GetRaindropsByCollection" ->
         {Malformed} \cup {Json(i) : i \in PageItems(s)}
    [] s.pc = "CreateList" ->
         {Malformed} \cup {Json([s.req.list EXCEPT !.ID = i]) : i \in ListIDs}
    [] s.pc = "CreateBookmark" ->
         {Malformed} \cup {Json([s.req.bookmark EXCEPT !.ID = i]) : i \in BookmarkIDs}
    [] s.pc = "GetAllBookmarks" -> {Malformed} \cup {Json(l) : l \in DestBookmarks}
    [] s.pc = "GetAllLists" -> {Malformed} \cup {Json(l) : l \in DestLists}
    [] s.pc \in {"DeleteBookmark", "DeleteList"} -> {Malformed}
    [] OTHER -> {Malformed, Json(<<>>)}

\* the body a service sends with any other answer: anything; in a run of
\* RunImport, where the body of such an answer is never read, the undecodable
\* one stands for all
ErrorBodies(s) ==
  IF s.entry \in {"RunImport", "main", "Cleanup", "Pagination"} THEN {Malformed}
  ELSE Bodies(s)

\* what the Retry-After header of a 429 answer may hold: nothing, seconds, an
\* HTTP date, an invalid value; a single client call is answered with each
RetryAfterHeaders(s) ==
  IF s.entry \in {"RunImport", "main", "Cleanup", "Pagination"}
  THEN {NoRetryAfter}
  ELSE {NoRetryAfter, <<"2">>,
        <<"W", "e", "d", ",", " ", "0", "4", " ", "N", "o", "v", " ",
          "2", "0", "2", "6", " ", "0", "0", ":", "0", "0", ":", "0", "2", " ",
          "G", "M", "T">>,
        <<"i", "n", "v", "a", "l", "i", "d">>}

BodiesFor(s, status) ==
  IF status \in {StatusOK, StatusCreated} THEN Bodies(s) ELSE ErrorBodies(s)

\* the statuses a service may answer with: 204 is an answer to a DELETE
StatusesFor(s) ==
  IF s.pc \in {"DeleteBookmark", "DeleteList"}
  THEN Statuses \cup {StatusNoContent} ELSE Statuses

(***************************************************************************)
(* Actions.                                                                *)
(***************************************************************************)
\* httpClient.Do fails: no response; in the runs whose callers only log the
\* error this one stands for every error of Do
DoTransportError ==
  /\ InLoop
  /\ \E e \in TransportErrors : Apply(RetryStep(Cur, ErrOutcome(e), 0))

\* httpClient.Do fails on a retry of a request with a body: the first send
\* has drained req.Body, and on a connection that is not a reused one the
\* transport does not rewind it
DoContentLengthError ==
  /\ InLoop /\ transport.unread = Drained
  /\ Apply(RetryStep(Cur, ErrOutcome(ContentLengthError), 0))

\* httpClient.Do returns a response that is no 429
DoResponse ==
  /\ InLoop
  /\ \E status \in StatusesFor(Cur) \ {StatusTooManyRequests} :
       \E body \in BodiesFor(Cur, status) :
         Apply(Sent(Received(RetryStep(Cur, RespOutcome(status, body), 0))))

\* httpClient.Do returns a 429 response
DoRateLimited ==
  /\ InLoop
  /\ \E f \in RandFloats, h \in RetryAfterHeaders(Cur) :
       Apply(Sent(Received(RetryStep(Cur, [RespOutcome(StatusTooManyRequests, NoBody)
                                    EXCEPT !.retryAfter = h], f))))

\* main calls Importer.RunImport, which calls GetCollections
RunImport ==
  /\ pc = "idle" /\ entry = "RunImport"
  /\ Apply(StartCall(Cur, "GetCollections", [op |-> "GetCollections"]))

GetCollectionsReturn ==
  /\ pc = "GetCollections" /\ rs = "returned"
  /\ Apply(OnGetCollections(CloseBody(Cur), GetCollectionsResult(ret)))

CreateListReturn ==
  /\ pc = "CreateList" /\ rs = "returned"
  /\ Apply(OnCreateList(CountFailure(CloseBody(Cur), CreateListResult(ret).err),
                        CreateListResult(ret)))

\* a caller other than RunImport calls GetRaindropsByCollection
GetRaindropsByCollection ==
  /\ pc = "idle" /\ entry = "GetRaindropsByCollection"
  /\ \E id \in {c.ID : c \in CollectionSet} : Apply(StartReader(Cur, id))

GetRaindropsPageReturn ==
  /\ pc = "GetRaindropsByCollection" /\ rs = "returned"
  /\ Apply(OnPage(CountFailure(CloseBody(Cur), PageResult(ret).err),
                  PageResult(ret)))

CreateBookmarkReturn ==
  /\ pc = "CreateBookmark" /\ rs = "returned"
  /\ Apply(OnCreateBookmark(CountFailure(CloseBody(Cur),
                                       CreateBookmarkResult(ret).err),
                          CreateBookmarkResult(ret)))

AddBookmarkToListReturn ==
  /\ pc = "AddBookmarkToList" /\ rs = "returned"
  /\ Apply(OnAddBookmarkToList(CountFailure(CloseBody(Cur),
                                          AddBookmarkToListResult(ret)),
                             AddBookmarkToListResult(ret)))

(***************************************************************************)
(* Spec: one run of RunImport.                                             *)
(***************************************************************************)
Init == InitAt("RunImport")

Next ==
  \/ RunImport
  \/ DoTransportError
  \/ DoResponse
  \/ DoRateLimited
  \/ GetCollectionsReturn
  \/ CreateListReturn
  \/ GetRaindropsPageReturn
  \/ CreateBookmarkReturn
  \/ AddBookmarkToListReturn

Spec == Init /\ [][Next]_vars

\* the same runs with the log kept
InitLogged ==
  /\ InitWith("RunImport", DefaultToken)
  /\ tally = [on |-> TRUE, logged |-> 0, failed |-> 0]

SpecLogged == InitLogged /\ [][Next]_vars

(***************************************************************************)
(* SpecReader: one call of GetRaindropsByCollection.                       *)
(***************************************************************************)
InitReader == InitAt("GetRaindropsByCollection")

NextReader ==
  \/ GetRaindropsByCollection
  \/ DoTransportError
  \/ DoResponse
  \/ DoRateLimited
  \/ GetRaindropsPageReturn

SpecReader == InitReader /\ [][NextReader]_vars

(***************************************************************************)
(* SpecPagination: GetRaindropsByCollection against a source that may go   *)
(* on serving non-empty pages, whatever was served before.                 *)
(***************************************************************************)
\* a caller calls GetRaindropsByCollection
Paginate ==
  /\ pc = "idle" /\ entry = "Pagination"
  /\ \E id \in {c.ID : c \in CollectionSet} : Apply(StartReader(Cur, id))

InitPagination == InitAt("Pagination")

NextPagination ==
  \/ Paginate
  \/ DoTransportError
  \/ DoResponse
  \/ DoRateLimited
  \/ GetRaindropsPageReturn

SpecPagination == InitPagination /\ [][NextPagination]_vars

(***************************************************************************)
(* SpecClient: one call of one client operation by a caller other than     *)
(* RunImport.                                                              *)
(***************************************************************************)
\* the operations that send one request
SingleOperations == {"GetCollections", "CreateList", "CreateBookmark", "AddBookmarkToList"}
ClientOperations == SingleOperations \cup {"GetRaindropsByCollection"}

\* the requests a caller may have the operation op build
Requests(op) ==
  CASE op = "GetCollections" -> {[op |-> "GetCollections"]}
    [] op = "CreateList" ->
         {[op |-> "CreateList", list |-> [ID |-> "", Name |-> c.Title]] :
            c \in CollectionSet}
    [] op = "CreateBookmark" ->
         {[op |-> "CreateBookmark", bookmark |-> ToBookmark(r)] :
            r \in {RaindropA, RaindropB}}
    [] op = "AddBookmarkToList" ->
         {[op |-> "AddBookmarkToList", bookmarkID |-> b, listID |-> l] :
            b \in BookmarkIDs, l \in ListIDs}

\* the caller calls the operation
CallOperation ==
  /\ pc = "idle" /\ entry \in SingleOperations
  /\ \E r \in Requests(entry) : Apply(StartCall(Cur, entry, r))

\* the operation returns to the caller
OperationReturn ==
  /\ entry \in SingleOperations /\ pc = entry /\ rs = "returned"
  /\ Apply([CloseBody(Cur) EXCEPT !.pc = "done", !.opRet = OperationResult(Cur)])

InitClient ==
  /\ \E e \in ClientOperations, tk \in Tokens : InitWith(e, tk)
  /\ tally = NoTally

NextClient ==
  \/ CallOperation
  \/ GetRaindropsByCollection
  \/ DoTransportError
  \/ DoContentLengthError
  \/ DoResponse
  \/ DoRateLimited
  \/ OperationReturn
  \/ GetRaindropsPageReturn

SpecClient == InitClient /\ [][NextClient]_vars

(***************************************************************************)
(* SpecConcurrent: goroutines calling CreateBookmark on one client at the  *)
(* same time.  attempt, delay and resp are locals of doRequestWithRetry,   *)
(* so each goroutine has its own; a step of a goroutine is one iteration   *)
(* of its loop, and the steps of the goroutines interleave freely.         *)
(***************************************************************************)
\* the test servers: one answers 429 to every request, one answers 201
Endpoints == {"always429", "succeeds"}

\* the bookmark every goroutine passes to CreateBookmark
SharedBookmark == ToBookmark(RaindropA)

EndpointOutcome(e) ==
  IF e = "always429" THEN RespOutcome(StatusTooManyRequests, NoBody)
  ELSE RespOutcome(StatusCreated, Json([SharedBookmark EXCEPT !.ID = "bookmark-1"]))

\* a goroutine that has not called yet
NewCall ==
  [rs |-> "idle", attempt |-> 0, ret |-> NoRet, lastDo |-> NoOutcome, nreq |-> 0,
   n429 |-> 0, nsleep |-> 0, lastSleep |-> 0, out |-> NoOpRet]

\* variant: the attempt counter is a field of the client
ConcurrentStepSharedAttempt(th, t, o, f) ==
  LET new == RetryStep(th[t], o, f)
  IN  [u \in DOMAIN th |->
         IF u = t THEN new ELSE [th[u] EXCEPT !.attempt = new.attempt]]

\* one loop iteration of goroutine t: it reads and writes its own locals
ConcurrentStep(th, t, o, f) == [th EXCEPT ![t] = RetryStep(th[t], o, f)]

\* the test starts the goroutines against one of the servers
StartGoroutines ==
  /\ pc = "idle" /\ entry = "Concurrent"
  /\ \E e \in Endpoints :
       Apply([Cur EXCEPT !.pc = "concurrent", !.endpoint = e,
                         !.threads = [t \in 1..MaxGoroutines |-> NewCall]])

\* goroutine t calls CreateBookmark, which enters doRequestWithRetry
GoCall(t) ==
  /\ pc = "concurrent" /\ threads[t].rs = "idle"
  /\ Apply([Cur EXCEPT !.threads[t].rs = "loop"])

\* goroutine t sends its request and handles the answer
GoDo(t) ==
  /\ pc = "concurrent" /\ threads[t].rs = "loop"
  /\ LoopCondition(threads[t].attempt)
  /\ \E f \in RandFloats :
       Apply([Cur EXCEPT !.threads =
                ConcurrentStep(threads, t, EndpointOutcome(endpoint), f)])

\* CreateBookmark of goroutine t returns
GoReturn(t) ==
  /\ pc = "concurrent" /\ threads[t].rs = "returned"
  /\ Apply([Cur EXCEPT !.threads[t].rs = "done",
                       !.threads[t].out = CreateBookmarkResult(threads[t].ret)])

InitConcurrent == InitAt("Concurrent")

NextConcurrent ==
  \/ StartGoroutines
  \/ \E t \in 1..MaxGoroutines : GoCall(t)
  \/ \E t \in 1..MaxGoroutines : GoDo(t)
  \/ \E t \in 1..MaxGoroutines : GoReturn(t)

SpecConcurrent == InitConcurrent /\ [][NextConcurrent]_vars

(***************************************************************************)
(* SpecMain: the command, from main up to the return of GetCollections     *)
(* (and to the exit of the process when RunImport returns there).          *)
(***************************************************************************)
\* the environments the command may be started in, .env file applied
Environments ==
  [{"RAINDROP_API_TOKEN", "KARAKEEP_API_TOKEN"} -> {Unset, <<>>, DefaultToken}]

\* os.Getenv: the empty string when the variable is not set
Getenv(env, key) == IF env[key] = Unset THEN <<>> ELSE env[key]

\* config.Load
Load(env) ==
  [cfg |-> [RaindropToken |-> Getenv(env, "RAINDROP_API_TOKEN"),
            KarakeepToken |-> Getenv(env, "KARAKEEP_API_TOKEN")],
   err |-> Nil]

\* log.Fatalf: the line is logged and the process exits with status 1
Fatalf(s, line) ==
  [s EXCEPT !.process.status = "exited", !.process.exit = 1,
            !.process.fatal = line]

\* main, up to the first request of RunImport
OnMain(s, env) ==
  LET l == Load(env)
      s1 == [s EXCEPT !.process.env = env, !.process.status = "running"]
  IN  IF l.err # Nil
      THEN Fatalf([s1 EXCEPT !.pc = "done"],
                  "Failed to load configuration: " \o l.err)
      ELSE StartCall([s1 EXCEPT !.process.cfg = l.cfg],
                     "GetCollections", [op |-> "GetCollections"])

\* main, after RunImport returned
OnRunImportReturn(s) ==
  IF s.runErr # Nil THEN Fatalf(s, "Import failed: " \o s.runErr)
  ELSE [s EXCEPT !.process.status = "exited", !.process.exit = 0]

\* the command is started
Main ==
  /\ pc = "idle" /\ entry = "main"
  /\ \E env \in Environments : Apply(OnMain(Cur, env))

\* RunImport has returned to main
MainExit ==
  /\ entry = "main" /\ pc = "done" /\ process.status = "running"
  /\ Apply(OnRunImportReturn(Cur))

InitMain == InitAt("main")

NextMain ==
  \/ Main
  \/ DoTransportError
  \/ DoResponse
  \/ DoRateLimited
  \/ GetCollectionsReturn
  \/ MainExit

SpecMain == InitMain /\ [][NextMain]_vars

(***************************************************************************)
(* SpecCleanup: the cleanup of test data registered by setupCleanup.       *)
(***************************************************************************)
TestPrefix == <<"T", "_">>

\* variant: the prefix may stand anywhere in the title
HasPrefixAnywhere(str, prefix) ==
  \E k \in 0..(Len(str) - Len(prefix)) :
    SubSeq(str, k + 1, k + Len(prefix)) = prefix

\* strings.HasPrefix
HasPrefix(str, prefix) ==
  Len(str) >= Len(prefix) /\ SubSeq(str, 1, Len(prefix)) = prefix

\* karakeep.Client.GetAllBookmarks
GetAllBookmarksResult(r) ==
  IF r.err # Nil THEN [val |-> <<>>, err |-> r.err]
  ELSE IF r.resp.status # StatusOK
    THEN [val |-> <<>>,
          err |-> "failed to get bookmarks: " \o StatusLine(r.resp.status)]
  ELSE IF r.resp.body.kind # "json" THEN [val |-> <<>>, err |-> DecodeError]
  ELSE [val |-> r.resp.body.val, err |-> Nil]

\* karakeep.Client.GetAllLists
GetAllListsResult(r) ==
  IF r.err # Nil THEN [val |-> <<>>, err |-> r.err]
  ELSE IF r.resp.status # StatusOK
    THEN [val |-> <<>>,
          err |-> "failed to get lists: " \o StatusLine(r.resp.status)]
  ELSE IF r.resp.body.kind # "json" THEN [val |-> <<>>, err |-> DecodeError]
  ELSE [val |-> r.resp.body.val, err |-> Nil]

\* karakeep.Client.DeleteBookmark
DeleteBookmarkResult(r) ==
  IF r.err # Nil THEN r.err
  ELSE IF r.resp.status # StatusOK /\ r.resp.status # StatusNoContent
    THEN "failed to delete bookmark: " \o StatusLine(r.resp.status)
  ELSE Nil

\* karakeep.Client.DeleteList
DeleteListResult(r) ==
  IF r.err # Nil THEN r.err
  ELSE IF r.resp.status # StatusOK /\ r.resp.status # StatusNoContent
    THEN "failed to delete list: " \o StatusLine(r.resp.status)
  ELSE Nil

\* the first index from i on of an item the range loop deletes, 0 if none
RECURSIVE NextPrefixed(_, _, _)
NextPrefixed(names, prefix, i) ==
  IF i > Len(names) THEN 0
  ELSE IF HasPrefix(names[i], prefix) THEN i
  ELSE NextPrefixed(names, prefix, i + 1)

\* cleanupLists returns: the cleanup function logs its error and ends
CleanupListsReturn(s, err) ==
  [s EXCEPT !.pc = "done", !.cleanup.listsErr = err]

\* the range loop of cleanupLists, from index i on
CleanupListsLoop(s, i) ==
  LET j == NextPrefixed([k \in 1..Len(s.cleanup.lists) |-> s.cleanup.lists[k].Name],
                        s.cleanup.testPrefix, i)
  IN  IF j = 0 THEN CleanupListsReturn(s, Nil)
      ELSE StartCall([s EXCEPT !.cleanup.i = j], "DeleteList",
                     [op |-> "DeleteList", listID |-> s.cleanup.lists[j].ID])

\* cleanupLists is called
CleanupLists(s) ==
  StartCall([s EXCEPT !.cleanup.i = 0, !.cleanup.deletedCount = 0],
            "GetAllLists", [op |-> "GetAllLists"])

\* cleanupBookmarks returns: the cleanup function logs its error and goes on
\* to cleanupLists
CleanupBookmarksReturn(s, err) ==
  CleanupLists([s EXCEPT !.cleanup.bookmarksErr = err])

\* the range loop of cleanupBookmarks, from index i on
CleanupBookmarksLoop(s, i) ==
  LET j == NextPrefixed([k \in 1..Len(s.cleanup.bookmarks) |->
                           s.cleanup.bookmarks[k].Title],
                        s.cleanup.testPrefix, i)
  IN  IF j = 0 THEN CleanupBookmarksReturn(s, Nil)
      ELSE StartCall([s EXCEPT !.cleanup.i = j], "DeleteBookmark",
                     [op |-> "DeleteBookmark",
                      bookmarkID |-> s.cleanup.bookmarks[j].ID])

\* setupCleanup and, at the end of the test, the registered function
OnCleanup(s, prefix, skip) ==
  LET s1 == [s EXCEPT !.cleanup.testPrefix = prefix, !.cleanup.skip = skip]
  IN  IF skip THEN [s1 EXCEPT !.pc = "done"]
      ELSE StartCall(s1, "GetAllBookmarks", [op |-> "GetAllBookmarks"])

\* cleanupBookmarks after GetAllBookmarks
OnGetAllBookmarks(s) ==
  LET res == GetAllBookmarksResult(s.ret)
  IN  IF res.err # Nil THEN CleanupBookmarksReturn(s, res.err)
      ELSE CleanupBookmarksLoop([s EXCEPT !.cleanup.bookmarks = res.val], 1)

\* one delete attempt, as the loop sees it
Attempt(s, err) ==
  [op |-> s.pc, i |-> s.cleanup.i, id |-> IF s.pc = "DeleteBookmark"
                                          THEN s.req.bookmarkID
                                          ELSE s.req.listID,
   err |-> err]

\* the count the loop keeps of its successful deletes
Counted(s, err) ==
  [s EXCEPT !.cleanup.attempts = Append(@, Attempt(s, err)),
            !.cleanup.deletedCount = IF err = Nil THEN @ + 1 ELSE @]

\* variant: a failed delete ends the loop
OnDeleteBookmarkStopOnFailure(s) ==
  LET err == DeleteBookmarkResult(s.ret)
  IN  IF err # Nil THEN CleanupBookmarksReturn(Counted(s, err), err)
      ELSE CleanupBookmarksLoop(Counted(s, err), s.cleanup.i + 1)

\* cleanupBookmarks after DeleteBookmark: a failure is logged, the loop goes on
OnDeleteBookmark(s) ==
  LET err == DeleteBookmarkResult(s.ret)
  IN  CleanupBookmarksLoop(Counted(s, err), s.cleanup.i + 1)

\* cleanupLists after GetAllLists
OnGetAllLists(s) ==
  LET res == GetAllListsResult(s.ret)
  IN  IF res.err # Nil THEN CleanupListsReturn(s, res.err)
      ELSE CleanupListsLoop([s EXCEPT !.cleanup.lists = res.val], 1)

\* cleanupLists after DeleteList: a failure is logged, the loop goes on
OnDeleteList(s) ==
  LET err == DeleteListResult(s.ret)
  IN  CleanupListsLoop(Counted(s, err), s.cleanup.i + 1)

\* the test ends and its cleanup runs
Cleanup ==
  /\ pc = "idle" /\ entry = "Cleanup"
  /\ \E skip \in BOOLEAN : Apply(OnCleanup(Cur, TestPrefix, skip))

GetAllBookmarksReturn ==
  /\ pc = "GetAllBookmarks" /\ rs = "returned"
  /\ Apply(OnGetAllBookmarks(CloseBody(Cur)))

DeleteBookmarkReturn ==
  /\ pc = "DeleteBookmark" /\ rs = "returned"
  /\ Apply(OnDeleteBookmark(CloseBody(Cur)))

GetAllListsReturn ==
  /\ pc = "GetAllLists" /\ rs = "returned"
  /\ Apply(OnGetAllLists(CloseBody(Cur)))

DeleteListReturn ==
  /\ pc = "DeleteList" /\ rs = "returned"
  /\ Apply(OnDeleteList(CloseBody(Cur)))

InitCleanup == InitAt("Cleanup")

NextCleanup ==
  \/ Cleanup
  \/ DoTransportError
  \/ DoResponse
  \/ DoRateLimited
  \/ GetAllBookmarksReturn
  \/ DeleteBookmarkReturn
  \/ GetAllListsReturn
  \/ DeleteListReturn

SpecCleanup == InitCleanup /\ [][NextCleanup]_vars

(***************************************************************************)
(* Properties.                                                             *)
(***************************************************************************)
InCall == pc \notin {"idle", "done"}
CallReturned == rs = "returned" /\ nreq > 0
ItemPCs == {"CreateBookmark", "AddBookmarkToList"}

\* C1: once GetCollections has succeeded, RunImport returns nil, whatever
\* failed afterwards.
C1_NilOnceCollectionsFetched ==
  entry = "RunImport" /\ pc = "done" /\ gotCollections => runErr = Nil

\* a run that ended with nil although its last call, a link, exhausted the
\* retries
C1_Witness ==
  /\ entry = "RunImport" /\ pc = "done" /\ gotCollections /\ runErr = Nil
  /\ "AddBookmarkToList" \in called
  /\ ret.err = "rate limited after 5 retries: 429 Too Many Requests"

\* C2: when GetCollections fails, RunImport returns an error naming the step
\* and has called nothing but GetCollections.
C2_AbortOnCollectionsFailure ==
  entry = "RunImport" /\ pc = "done" /\ ~gotCollections =>
    /\ runErr \notin {Nil, "<none>"}
    /\ \E e \in {ret.err, "failed to get collections: " \o StatusLine(ret.resp.status),
                  DecodeError} :
         e # Nil /\ runErr = "failed to get collections: " \o e
    /\ called = {"GetCollections"}

\* a run aborted by a 500 answer to the folder listing
C2_Witness ==
  /\ entry = "RunImport" /\ pc = "done" /\ ~gotCollections
  /\ runErr = "failed to get collections: failed to get collections: 500 Internal Server Error"

\* C3: a call answered by 429 only returns after 6 requests and 5 sleeps, with
\* no response and the error that names 5 retries and the status line.
C3_RateLimitExhausted ==
  /\ CallReturned /\ n429 = nreq =>
       /\ nreq = 6 /\ nsleep = 5
       /\ ret = [resp |-> NilResp,
                 err |-> "rate limited after 5 retries: 429 Too Many Requests"]
  /\ InCall /\ rs = "loop" /\ n429 = nreq => nsleep = nreq /\ nreq <= 5

C3_Witness == InCall /\ CallReturned /\ n429 = nreq /\ nreq = 6

\* C4: a call answered by k 429s (0 <= k <= 5) and then another status sends
\* k+1 requests, sleeps k times and returns that response; the sleep after
\* the i-th 429 (i from 0) is within 10% of 1s * 2^i.
C4_RetryThenResponse ==
  /\ CallReturned /\ lastDo.kind = "resp" /\ lastDo.status # 429 =>
       /\ n429 \in 0..5 /\ nreq = n429 + 1 /\ nsleep = n429
       /\ ret = [resp |-> [status |-> lastDo.status, body |-> lastDo.body],
                 err |-> Nil]
  /\ InCall /\ rs = "loop" /\ nsleep > 0 =>
       /\ nsleep = n429
       /\ 10 * lastSleep >= 9 * 1000 * 2^(nsleep - 1)
       /\ 10 * lastSleep <= 11 * 1000 * 2^(nsleep - 1)

\* 429 twice, then 201: 3 requests and 2 sleeps
C4_Witness ==
  /\ InCall /\ CallReturned /\ n429 = 2 /\ nreq = 3 /\ nsleep = 2
  /\ ret.err = Nil /\ ret.resp.status = 201

\* C5: a first answer with any status but 429 ends the call: 1 request, no
\* sleep, the response returned as it is with a nil error.
C5_NoRetryOnOtherStatus ==
  lastDo.kind = "resp" /\ lastDo.status # 429 =>
    /\ rs = "returned"
    /\ ret = [resp |-> [status |-> lastDo.status, body |-> lastDo.body], err |-> Nil]
    /\ n429 = 0 => nreq = 1 /\ nsleep = 0 /\ lastSleep = 0

\* a 500 answer returned after one request
C5_Witness ==
  /\ InCall /\ CallReturned /\ nreq = 1 /\ nsleep = 0
  /\ ret.err = Nil /\ ret.resp.status = 500

\* C6: a transport failure ends the call on the attempt it happens: it is
\* returned with no response, after no request and no sleep other than those
\* of the 429s before it.
C6_TransportErrorImmediate ==
  lastDo.kind = "error" =>
    /\ rs = "returned"
    /\ ret = [resp |-> NilResp, err |-> lastDo.err]
    /\ nreq = n429 + 1 /\ nsleep = n429 /\ lastSleep = 0

\* a transport failure on the third attempt, after two 429s
C6_Witness ==
  /\ InCall /\ rs = "returned" /\ lastDo.kind = "error" /\ n429 = 2
  /\ ret.err \in TransportErrors

RECURSIVE Concat(_)
Concat(pages) == IF pages = <<>> THEN <<>> ELSE Head(pages) \o Concat(Tail(pages))

\* C7: GetRaindropsByCollection requests the pages 0, 1, 2, ... in order,
\* each once, with perpage=50, stops at the first empty page and returns the
\* items of the pages before it in page order: n+1 fetches for n non-empty
\* pages, one fetch and an empty result when the first page is empty.
C7_DrainsPages ==
  /\ pc = "GetRaindropsByCollection" =>
       /\ fetches = [i \in 1..Len(fetches) |-> i - 1]
       /\ req.page = fetches[Len(fetches)] /\ req.perpage = 50
       /\ req.collectionID = collectionID
       /\ Len(served) = Len(fetches) - 1
       /\ \A i \in 1..Len(served) : served[i] # <<>>
       /\ allRaindrops = Concat(served)
  /\ entry = "GetRaindropsByCollection" /\ pc = "done" /\ readRet.err = Nil =>
       /\ served # <<>> /\ served[Len(served)] = <<>>
       /\ \A i \in 1..(Len(served) - 1) : served[i] # <<>>
       /\ readRet.items = Concat(served)
       /\ fetches = [i \in 1..Len(served) |-> i - 1]

\* the pages [{A,B},{C},{}] give [A,B,C] after 3 fetches
C7_Witness ==
  /\ entry = "GetRaindropsByCollection" /\ pc = "done" /\ readRet.err = Nil
  /\ served = <<<<RaindropA, RaindropB>>, <<RaindropC>>, <<>>>>
  /\ readRet.items = <<RaindropA, RaindropB, RaindropC>>
  /\ fetches = <<0, 1, 2>>

\* C8: when the fetch of a page fails, GetRaindropsByCollection returns that
\* error and no items, whatever the earlier pages held, and the failing page
\* is the last one it requested.
C8_PageFailureDiscardsAll ==
  entry = "GetRaindropsByCollection" /\ pc = "done" /\ readRet.err # Nil =>
    /\ readRet.items = <<>>
    /\ ret.err # Nil => readRet.err = ret.err
    /\ ret.err = Nil /\ ret.resp.status # 200 =>
         readRet.err = "failed to get raindrops: " \o StatusLine(ret.resp.status)
    /\ ret.err = Nil /\ ret.resp.status = 200 =>
         ret.resp.body.kind # "json" /\ readRet.err = DecodeError
    /\ Len(fetches) = Len(served) + 1
    /\ fetches[Len(fetches)] = Len(served)
    /\ req.page = Len(served)

\* the second page exhausts the retries after a first page of two items
C8_Witness ==
  /\ entry = "GetRaindropsByCollection" /\ pc = "done"
  /\ served = <<<<RaindropA, RaindropB>>>> /\ fetches = <<0, 1>>
  /\ readRet = [items |-> <<>>,
                err |-> "rate limited after 5 retries: 429 Too Many Requests"]

\* C9: CreateBookmark is called once for every item of a fetched folder, in
\* the order fetched, whatever became of the earlier items: during the item
\* loop the calls made are those for the items up to the current one, and
\* no fetched item is left out when the loop is left.
C9_EveryItemAttempted ==
  entry = "RunImport" =>
    /\ pc \in ItemPCs =>
         /\ ri \in 1..Len(raindrops) /\ Len(attempted) = ri
         /\ \A j \in 1..ri :
              /\ attempted[j].URL = raindrops[j].Link
              /\ attempted[j].Title = raindrops[j].Title
         /\ pending = Len(raindrops) - ri
         /\ Len(created) = IF pc = "CreateBookmark" THEN ri - 1 ELSE ri
         /\ pc = "CreateBookmark" => req.bookmark = attempted[ri]
    /\ pc \notin ItemPCs => pending = 0

\* the second of two identical items of the second folder is being created
\* after the create of the first one failed
C9_Witness ==
  /\ entry = "RunImport" /\ pc = "CreateBookmark" /\ rs = "loop"
  /\ ci = 2 /\ ri = 2 /\ raindrops = <<RaindropA, RaindropA>>
  /\ created = <<FALSE>> /\ attempted[2] = attempted[1]

\* C10: a link call is made only for a folder that has a mapping entry.
C10_LinkOnlyIfMapped ==
  entry = "RunImport" /\ pc = "AddBookmarkToList" =>
    collections[ci].ID \in DOMAIN collectionMap

\* a step that starts a new call of the operation op
CallStart(op) == pc' = op /\ rs' = "loop" /\ nreq' = 0

\* C11: a failed create or link is final for its item: a link call starts
\* only on the return of the successful create of the same item, a create
\* call starts only for the item after the current one (or the first item of
\* a folder just fetched), so no item is created or linked twice and the link
\* calls of a folder are at most its successful creates.
C11_FailedCreateIsFinal ==
  [][/\ CallStart("AddBookmarkToList") =>
          /\ pc = "CreateBookmark" /\ rs = "returned"
          /\ ret.err = Nil /\ ret.resp.status = 201
          /\ ri' = ri /\ ci' = ci /\ raindrops' = raindrops
          /\ created' = Append(created, TRUE) /\ Len(created') = ri
          /\ req'.bookmarkID = createdBookmark'.ID
     /\ CallStart("CreateBookmark") =>
          /\ pc \in ItemPCs =>
               ri' = ri + 1 /\ ci' = ci /\ raindrops' = raindrops
          /\ pc \notin ItemPCs =>
               pc = "GetRaindropsByCollection" /\ ri' = 1 /\ created' = <<>>
          /\ pc = "CreateBookmark" => created' = Append(created, FALSE)
          /\ pc = "AddBookmarkToList" => created' = created
     /\ pc = "CreateBookmark" /\ pc' # "CreateBookmark"
          /\ (ret.err # Nil \/ ret.resp.status # 201) =>
            ~CallStart("AddBookmarkToList")
    ]_vars

\* 1 folder, 2 items, the first create answered by 500: the one link call is
\* that of the second item
C11_Witness ==
  /\ entry = "RunImport" /\ pc = "AddBookmarkToList"
  /\ Len(collections) = 1 /\ Len(raindrops) = 2 /\ ri = 2
  /\ created = <<FALSE, TRUE>>
  /\ req.bookmarkID = createdBookmark.ID

\* the CreateList call in progress has returned a failure
CreateListFailed ==
  /\ pc = "CreateList" /\ rs = "returned"
  /\ \/ ret.err # Nil
     \/ ret.resp.status # 201
     \/ ret.resp.body.kind # "json"

\* C12: in the folder-creation phase CreateList is called once for every
\* source folder, in source order, with the folder's title, folders of equal
\* title included; a failed call writes nothing to the mapping and is
\* followed by the call for the next folder.
C12_CreateListOncePerFolder ==
  [][/\ CallStart("CreateList") =>
          /\ pc \in {"GetCollections", "CreateList"} /\ rs = "returned"
          /\ ci' = IF pc = "GetCollections" THEN 1 ELSE ci + 1
          /\ ci' \in 1..Len(collections')
          /\ req'.list.Name = collections'[ci'].Title
          /\ pc = "CreateList" => collections' = collections
     /\ pc = "GetCollections" /\ pc' # "GetCollections" /\ collections' # <<>> =>
          CallStart("CreateList")
     /\ pc = "CreateList" /\ rs = "returned" /\ ci < Len(collections) =>
          CallStart("CreateList")
     /\ pc = "CreateList" /\ pc' # "CreateList" => ci = Len(collections)
     /\ CreateListFailed => collectionMap' = collectionMap
     /\ pc = "CreateList" /\ rs = "returned" /\ ~CreateListFailed =>
          /\ collections[ci].ID \in DOMAIN collectionMap'
          /\ collectionMap'[collections[ci].ID] = ret.resp.body.val.ID
          /\ \A k \in DOMAIN collectionMap' \ {collections[ci].ID} :
               k \in DOMAIN collectionMap /\ collectionMap'[k] = collectionMap[k]
     /\ pc' = "CreateList" =>
          DOMAIN collectionMap' \subseteq {collections'[j].ID : j \in 1..(ci' - 1)}
    ]_vars

\* two folders of equal title: the CreateList call of the second one is in
\* progress after that of the first one failed, and nothing is mapped
C12_Witness ==
  /\ entry = "RunImport" /\ pc = "CreateList" /\ rs = "loop" /\ ci = 2
  /\ Len(collections) = 2
  /\ collections[1].Title = collections[2].Title
  /\ collections[1].ID # collections[2].ID
  /\ collectionMap = <<>>
  /\ req.list.Name = collections[2].Title

\* the page request in progress has returned the empty page that ends the
\* listing of the folder
LastPageReturned ==
  /\ pc = "GetRaindropsByCollection" /\ rs = "returned"
  /\ ret.err = Nil /\ ret.resp.status = 200
  /\ ret.resp.body.kind = "json" /\ ret.resp.body.val = <<>>

\* C13: the item loop runs for every source folder, mapped or not: the
\* folders are fetched one after the other in source order, the first one
\* right after the last CreateList call, the run ends only after the last
\* one, and the items fetched for a folder are passed to CreateBookmark
\* whether or not the folder has a mapping entry.
C13_ItemLoopForEveryFolder ==
  [][/\ CallStart("GetRaindropsByCollection") /\ fetches' = <<0>> =>
          /\ ci' = IF pc = "CreateList" THEN 1 ELSE ci + 1
          /\ ci' \in 1..Len(collections)
          /\ req'.collectionID = collections[ci'].ID
     /\ pc = "CreateList" /\ pc' # "CreateList" =>
          CallStart("GetRaindropsByCollection") /\ fetches' = <<0>>
     /\ pc \in ItemPCs \cup {"GetRaindropsByCollection"} /\ pc' = "done" =>
          ci = Len(collections)
     /\ LastPageReturned /\ allRaindrops # <<>> =>
          /\ CallStart("CreateBookmark")
          /\ raindrops' = allRaindrops /\ ri' = 1
          /\ pending' = Len(allRaindrops) - 1
     /\ pc \in ItemPCs /\ CallStart("GetRaindropsByCollection") =>
          ri = Len(raindrops)
    ]_vars

\* the second item of the second folder is being created; that folder has
\* no mapping entry, the first one has
C13_Witness ==
  /\ entry = "RunImport" /\ pc = "CreateBookmark" /\ rs = "loop"
  /\ ci = 2 /\ ri = 2 /\ Len(raindrops) = 2
  /\ collections[2].ID \notin DOMAIN collectionMap
  /\ collections[1].ID \in DOMAIN collectionMap

\* the CreateBookmark call in progress has returned a bookmark
CreateBookmarkSucceeded ==
  /\ pc = "CreateBookmark" /\ rs = "returned"
  /\ ret.err = Nil /\ ret.resp.status = 201 /\ ret.resp.body.kind = "json"

\* C14: linking is per item, not deferred: when a create succeeds for an
\* item of a folder that has a mapping entry, the very next call is the link
\* call for the bookmark just created, and it targets the list id recorded
\* for that folder; so it comes before the next item's create call and
\* before the fetch of the next folder.
C14_LinkBeforeNextItem ==
  [][/\ CreateBookmarkSucceeded /\ collections[ci].ID \in DOMAIN collectionMap =>
          /\ CallStart("AddBookmarkToList")
          /\ req'.listID = collectionMap[collections[ci].ID]
          /\ req'.bookmarkID = ret.resp.body.val.ID
          /\ ci' = ci /\ ri' = ri /\ collectionMap' = collectionMap
     /\ pc' = "AddBookmarkToList" /\ collections'[ci'].ID \in DOMAIN collectionMap' =>
          req'.listID = collectionMap'[collections'[ci'].ID]
     /\ pc \in ItemPCs \cup {"GetRaindropsByCollection"} =>
          collectionMap' = collectionMap /\ collections' = collections
    ]_vars

\* the first of two items of the first of two folders has been created and
\* its link call to the list of that folder is about to be sent
C14_Witness ==
  /\ entry = "RunImport" /\ pc = "AddBookmarkToList" /\ rs = "loop" /\ nreq = 0
  /\ Len(collections) = 2 /\ ci = 1 /\ Len(raindrops) = 2 /\ ri = 1
  /\ collections[1].ID \in DOMAIN collectionMap
  /\ collectionMap[collections[1].ID] = "list-1"
  /\ req.listID = "list-1" /\ req.bookmarkID = "bookmark-1"

\* C15: when GetCollections succeeds with an empty list, RunImport returns
\* nil at once: GetCollections is the only call of the run, so nothing is
\* sent to the destination and no items are fetched.
C15_NoFoldersNoCalls ==
  entry = "RunImport" /\ gotCollections /\ collections = <<>> =>
    /\ pc = "done" /\ runErr = Nil
    /\ called = {"GetCollections"}
    /\ req = [op |-> "GetCollections"]
    /\ fetches = <<>> /\ collectionMap = <<>>

\* a run that ended after a 200 answer listing no folders
C15_Witness ==
  /\ entry = "RunImport" /\ pc = "done" /\ gotCollections /\ collections = <<>>
  /\ runErr = Nil
  /\ ret.resp.status = 200 /\ ret.resp.body = Json(<<>>)

\* C16: the bookmark passed to CreateBookmark for an item is exactly
\* URL = Link, Title = Title, Description = Excerpt, Tags = Tags of the item,
\* empty values included, and the create is attempted whatever they are; the
\* list passed to CreateList is named by the title of the folder.
C16_FieldsPassedThrough ==
  entry = "RunImport" =>
    /\ pc = "CreateBookmark" =>
         /\ req.op = "CreateBookmark"
         /\ req.bookmark.URL = raindrops[ri].Link
         /\ req.bookmark.Title = raindrops[ri].Title
         /\ req.bookmark.Description = raindrops[ri].Excerpt
         /\ req.bookmark.Tags = raindrops[ri].Tags
         /\ req.bookmark.ID = ""
         /\ DOMAIN req.bookmark = {"ID", "URL", "Title", "Description", "Tags"}
    /\ pc = "CreateList" =>
         /\ req.op = "CreateList"
         /\ req.list.Name = collections[ci].Title
         /\ req.list.ID = ""

\* the create call for an item that has no link, no title, no excerpt and no
\* tags has been sent, after the create call for a complete item
C16_Witness ==
  /\ entry = "RunImport" /\ pc = "CreateBookmark" /\ nreq = 1 /\ ri = 2
  /\ raindrops = <<RaindropA, RaindropB>>
  /\ req.bookmark.URL = "" /\ req.bookmark.Title = "" /\ req.bookmark.Tags = <<>>
  /\ attempted[1].URL = "https://a.example" /\ attempted[1].Tags = <<"x", "y">>

\* C17: the n-th sleep of a call (n = 0..4) lasts at least 1s * 2^n and at
\* most 1.1 * 1s * 2^n: the exponential part is exactly 1s * 2^n and the
\* jitter added to it is never negative and never more than a tenth of it.
C17_DelayBounds ==
  InCall /\ rs = "loop" /\ nsleep > 0 =>
    LET n == nsleep - 1
        exponential == 1000 * 2^n
        jitter == lastSleep - exponential
    IN  /\ n \in 0..4 /\ attempt = n + 1
        /\ jitter >= 0 /\ 10 * jitter <= exponential
        /\ lastSleep >= exponential
        /\ 10 * lastSleep <= 11 * exponential

\* the fifth sleep (n = 4) with the largest jitter: 16s and 1.598s
C17_Witness ==
  /\ InCall /\ rs = "loop" /\ nsleep = 5 /\ attempt = 5
  /\ lastSleep = 17598

\* the success status of each client operation
ExpectedStatus(op) == IF op \in {"CreateBookmark", "CreateList"} THEN 201 ELSE 200

\* the text each client operation puts before the status line
ErrorPrefix(op) ==
  CASE op = "CreateBookmark" -> "failed to create bookmark"
    [] op = "CreateList" -> "failed to create list"
    [] op = "AddBookmarkToList" -> "failed to add bookmark to list"
    [] op = "GetCollections" -> "failed to get collections"
    [] op = "GetRaindropsByCollection" -> "failed to get raindrops"

\* C18: an operation that receives a response with another status than the
\* one it expects (201 for CreateBookmark and CreateList, 200 for the others;
\* a 429 never reaches it as a response) returns the error
\* "<operation>: <status line>" and no result value.
C18_StatusErrorText ==
  entry \in ClientOperations /\ pc = "done" /\ ret.err = Nil
    /\ ret.resp.status # ExpectedStatus(entry) =>
      LET text == ErrorPrefix(entry) \o ": " \o StatusLine(ret.resp.status)
      IN  /\ ret.resp.status # 429
          /\ entry = "GetRaindropsByCollection" =>
               readRet = [items |-> <<>>, err |-> text]
          /\ entry \in {"CreateBookmark", "CreateList"} =>
               opRet = [val |-> NilPointer, err |-> text]
          /\ entry \in {"GetCollections", "AddBookmarkToList"} =>
               opRet = [val |-> <<>>, err |-> text]

\* CreateBookmark answered by 404
C18_Witness ==
  /\ entry = "CreateBookmark" /\ pc = "done"
  /\ ret.err = Nil /\ ret.resp.status = 404
  /\ opRet = [val |-> NilPointer, err |-> "failed to create bookmark: 404 Not Found"]

\* the error a stand-alone client operation returned
ReturnedErr == IF entry = "GetRaindropsByCollection" THEN readRet.err ELSE opRet.err

\* C19: decode failures and status failures are never conflated: an
\* operation returns a decode error only for a response that had the
\* expected status and an undecodable body; a response with another status
\* yields the status error and no value, whatever its body holds, decodable
\* or not.
C19_DecodeVsStatus ==
  entry \in ClientOperations /\ pc = "done" =>
    /\ ReturnedErr = DecodeError =>
         /\ ret.err = Nil
         /\ ret.resp.status = ExpectedStatus(entry)
         /\ ret.resp.body.kind # "json"
         /\ entry # "AddBookmarkToList"
    /\ ret.err = Nil /\ ret.resp.status # ExpectedStatus(entry) =>
         /\ ReturnedErr = ErrorPrefix(entry) \o ": " \o StatusLine(ret.resp.status)
         /\ ReturnedErr # DecodeError
         /\ entry \in {"CreateBookmark", "CreateList"} => opRet.val = NilPointer
         /\ entry = "GetCollections" => opRet.val = <<>>
         /\ entry = "GetRaindropsByCollection" => readRet.items = <<>>
    /\ ret.err = Nil /\ ret.resp.status = ExpectedStatus(entry)
         /\ ret.resp.body.kind # "json" /\ entry # "AddBookmarkToList" =>
           ReturnedErr = DecodeError

\* CreateList answered by 404 with a body that would decode into a list:
\* the status error, not the list
C19_Witness ==
  /\ entry = "CreateList" /\ pc = "done"
  /\ ret.err = Nil /\ ret.resp.status = 404
  /\ ret.resp.body = Json([ID |-> "list-1", Name |-> "Unsorted"])
  /\ opRet = [val |-> NilPointer, err |-> "failed to create list: 404 Not Found"]

\* C20: every doRequestWithRetry call returns after at most 6 requests and
\* 5 sleeps: while the call is in its loop every step sends one more
\* request, a sleep happens only after a request, the loop is never entered
\* for a seventh request, and the sixth request ends the call whatever its
\* outcome.
C20_CallTerminates ==
  [][/\ InCall /\ rs = "loop" =>
          /\ nreq = attempt /\ nreq <= 5 /\ nsleep = nreq
          /\ nreq' = nreq + 1
          /\ nsleep' \in {nsleep, nsleep + 1}
          /\ rs' = "loop" => nsleep' = nsleep + 1 /\ attempt' = attempt + 1
          /\ nreq' = 6 => rs' = "returned" /\ nsleep' = 5
          /\ pc' = pc /\ req' = req
     /\ InCall' => nreq' <= 6 /\ nsleep' <= 5
     /\ InCall' /\ rs' = "loop" => nreq' <= 5 /\ attempt' <= maxRetries
    ]_vars

\* five 429 answers and then a transport failure: returned after 6 requests
\* and 5 sleeps
C20_Witness ==
  /\ InCall /\ rs = "returned" /\ nreq = 6 /\ nsleep = 5 /\ n429 = 5
  /\ lastDo.kind = "error"

RECURSIVE RequestsOf(_, _)
\* requests the first n goroutines have sent
RequestsOf(th, n) == IF n = 0 THEN 0 ELSE th[n].nreq + RequestsOf(th, n - 1)

BearerAlone == <<"B", "e", "a", "r", "e", "r">>

PageSucceeded ==
  /\ pc = "GetRaindropsByCollection" /\ rs = "returned"
  /\ ret.err = Nil /\ ret.resp.status = 200 /\ ret.resp.body.kind = "json"

\* C23: pagination continues from where it was after a retry: the requests
\* of one doRequestWithRetry call are all for the same page index and change
\* nothing of the pages read so far; when a page succeeds after one or more
\* 429 answers its items are appended once and the next request is for the
\* next index, so that at any time the page requested is the number of the
\* pages read and the items kept are those pages in order.
C23_RetrySamePageThenNext ==
  [][/\ pc = "GetRaindropsByCollection" /\ rs = "loop" =>
          /\ req.page = page /\ req' = req /\ page' = page
          /\ fetches' = fetches /\ served' = served
          /\ allRaindrops' = allRaindrops
     /\ PageSucceeded /\ n429 > 0 /\ ret.resp.body.val # <<>> =>
          /\ CallStart("GetRaindropsByCollection")
          /\ req'.page = req.page + 1 /\ page' = page + 1
          /\ req'.collectionID = req.collectionID
          /\ fetches' = Append(fetches, req.page + 1)
          /\ served' = Append(served, ret.resp.body.val)
          /\ allRaindrops' = allRaindrops \o ret.resp.body.val
     /\ PageSucceeded /\ n429 > 0 /\ ret.resp.body.val = <<>> =>
          /\ pc' = "done" /\ readRet' = [items |-> allRaindrops, err |-> Nil]
          /\ fetches' = fetches
     /\ pc' = "GetRaindropsByCollection" =>
          /\ req'.page = Len(served')
          /\ fetches' = [i \in 1..(Len(served') + 1) |-> i - 1]
          /\ allRaindrops' = Concat(served')
    ]_vars

\* page 1 was answered by 429 twice and then served an item; page 0 had
\* served two
C23_Witness ==
  /\ entry = "GetRaindropsByCollection" /\ PageSucceeded
  /\ n429 = 2 /\ nreq = 3 /\ req.page = 1
  /\ served = <<<<RaindropA, RaindropB>>>>
  /\ ret.resp.body.val = <<RaindropC>>

\* C24: when RAINDROP_API_TOKEN and KARAKEEP_API_TOKEN are not set, the
\* command exits with a non-zero status and an error message about the
\* configuration, without starting the import.
C24_ExitWhenTokensUnset ==
  entry = "main" /\ process.status # "none"
    /\ process.env["RAINDROP_API_TOKEN"] = Unset
    /\ process.env["KARAKEEP_API_TOKEN"] = Unset =>
      /\ process.status = "exited" /\ process.exit = 1
      /\ process.fatal \notin {"<none>", "Import failed: " \o runErr}
      /\ called = {}

\* str begins with prefix
StartsWith(str, prefix) == \E n \in 0..Len(str) : SubSeq(str, 1, n) = prefix

\* the delete attempts made so far for item k of a listing
AttemptsFor(op, k) ==
  {n \in 1..Len(cleanup.attempts) :
     cleanup.attempts[n].op = op /\ cleanup.attempts[n].i = k}

\* C25: the cleanup deletes only prefixed items: whatever the destination
\* holds, every DeleteBookmark call is for a listed bookmark whose title
\* starts with the test prefix and every DeleteList call is for a listed
\* list whose name starts with it.
C25_DeleteOnlyPrefixed ==
  /\ pc = "DeleteBookmark" =>
       /\ \E k \in 1..Len(cleanup.bookmarks) :
            cleanup.bookmarks[k].ID = req.bookmarkID
       /\ \A k \in 1..Len(cleanup.bookmarks) :
            cleanup.bookmarks[k].ID = req.bookmarkID =>
              StartsWith(cleanup.bookmarks[k].Title, cleanup.testPrefix)
  /\ pc = "DeleteList" =>
       /\ \E k \in 1..Len(cleanup.lists) : cleanup.lists[k].ID = req.listID
       /\ \A k \in 1..Len(cleanup.lists) :
            cleanup.lists[k].ID = req.listID =>
              StartsWith(cleanup.lists[k].Name, cleanup.testPrefix)
  /\ \A n \in 1..Len(cleanup.attempts) :
       LET a == cleanup.attempts[n]
       IN  IF a.op = "DeleteBookmark"
           THEN /\ cleanup.bookmarks[a.i].ID = a.id
                /\ StartsWith(cleanup.bookmarks[a.i].Title, cleanup.testPrefix)
           ELSE /\ cleanup.lists[a.i].ID = a.id
                /\ StartsWith(cleanup.lists[a.i].Name, cleanup.testPrefix)

\* a cleanup that met a bookmark with the prefix inside its title and a list
\* with a name shorter than the prefix, and deleted one item of each kind
C25_Witness ==
  /\ entry = "Cleanup" /\ pc = "done"
  /\ \E k \in 1..Len(cleanup.bookmarks) :
       cleanup.bookmarks[k].Title = <<"a", "T", "_">>
  /\ \E k \in 1..Len(cleanup.lists) : cleanup.lists[k].Name = <<"T">>
  /\ \E n \in 1..Len(cleanup.attempts) : cleanup.attempts[n].op = "DeleteBookmark"
  /\ \E n \in 1..Len(cleanup.attempts) : cleanup.attempts[n].op = "DeleteList"

\* C26: the cleanup goes on after failures: no item gets a second delete
\* attempt, and when the cleanup has ended every prefixed bookmark and every
\* prefixed list of the listings got exactly one delete attempt, whatever
\* the earlier deletes returned, and the lists were fetched even if fetching
\* the bookmarks failed.
C26_CleanupContinues ==
  entry = "Cleanup" =>
    /\ \A k \in 1..Len(cleanup.bookmarks) :
         Cardinality(AttemptsFor("DeleteBookmark", k)) <= 1
    /\ \A k \in 1..Len(cleanup.lists) :
         Cardinality(AttemptsFor("DeleteList", k)) <= 1
    /\ pc = "done" /\ ~cleanup.skip =>
         /\ \A k \in 1..Len(cleanup.bookmarks) :
              StartsWith(cleanup.bookmarks[k].Title, cleanup.testPrefix) =>
                Cardinality(AttemptsFor("DeleteBookmark", k)) = 1
         /\ \A k \in 1..Len(cleanup.lists) :
              StartsWith(cleanup.lists[k].Name, cleanup.testPrefix) =>
                Cardinality(AttemptsFor("DeleteList", k)) = 1
         /\ "GetAllLists" \in called

\* a cleanup whose first delete failed and which went on to delete a second
\* bookmark and a list
C26_Witness ==
  /\ entry = "Cleanup" /\ pc = "done" /\ Len(cleanup.attempts) >= 3
  /\ cleanup.attempts[1].op = "DeleteBookmark" /\ cleanup.attempts[1].err # Nil
  /\ cleanup.attempts[2].op = "DeleteBookmark"
  /\ cleanup.attempts[3].op = "DeleteList"

\* doRequestWithRetry has returned a page that GetRaindropsByCollection
\* takes for a failure
PageFailed ==
  /\ pc = "GetRaindropsByCollection" /\ rs = "returned"
  /\ \/ ret.err # Nil
     \/ ret.resp.status # 200
     \/ ret.resp.body.kind # "json"

\* C27: a failed item fetch costs the run that folder only: while a folder
\* is being fetched no create or link call has been made for it, and when
\* one of its pages fails, whatever the earlier pages held, the next step is
\* the first page request for the next source folder, or the end of the run
\* with a nil error after the last folder, never a create or link call.
C27_FetchFailureSkipsFolder ==
  [][entry = "RunImport" =>
       /\ pc = "GetRaindropsByCollection" => attempted = <<>> /\ pending = 0
       /\ PageFailed =>
            /\ pc' \notin ItemPCs
            /\ attempted' = <<>> /\ raindrops' = <<>> /\ pending' = 0
            /\ called' = called /\ collectionMap' = collectionMap
            /\ IF ci < Len(collections)
               THEN /\ CallStart("GetRaindropsByCollection")
                    /\ ci' = ci + 1 /\ fetches' = <<0>>
                    /\ req'.collectionID = collections[ci + 1].ID
                    /\ req'.page = 0
               ELSE pc' = "done" /\ runErr' = Nil
    ]_vars

\* the second page of the first of two folders has failed after a first
\* page of two items
C27_Witness ==
  /\ entry = "RunImport" /\ PageFailed
  /\ ci = 1 /\ Len(collections) = 2
  /\ served = <<<<RaindropA, RaindropB>>>> /\ fetches = <<0, 1>>

\* the phase of RunImport an operation belongs to
PhaseOf(p) ==
  CASE p = "idle" -> 0
    [] p = "GetCollections" -> 1
    [] p = "CreateList" -> 2
    [] p \in ItemPCs \cup {"GetRaindropsByCollection"} -> 3
    [] OTHER -> 4

\* C28: RunImport goes through its phases in order and never back: the one
\* GetCollections call is the first call of the run, every CreateList call
\* starts after GetCollections succeeded and before any item fetch, and the
\* first item fetch starts on the return of the CreateList call for the last
\* source folder.
C28_PhasesInOrder ==
  [][entry = "RunImport" =>
       /\ PhaseOf(pc') >= PhaseOf(pc)
       /\ CallStart("GetCollections") => pc = "idle" /\ called = {}
       /\ CallStart("CreateList") =>
            /\ "GetCollections" \in called /\ gotCollections'
            /\ called' \cap (ItemPCs \cup {"GetRaindropsByCollection"}) = {}
       /\ CallStart("GetRaindropsByCollection")
            /\ "GetRaindropsByCollection" \notin called =>
            /\ pc = "CreateList" /\ rs = "returned"
            /\ ci = Len(collections) /\ ci' = 1
       /\ pc' \in ItemPCs => "GetRaindropsByCollection" \in called
    ]_vars

\* the first item fetch of a run over two folders starts with both folders
\* mapped
C28_Witness ==
  /\ entry = "RunImport" /\ pc = "GetRaindropsByCollection" /\ nreq = 0
  /\ ci = 1 /\ fetches = <<0>> /\ Len(collections) = 2
  /\ called = {"GetCollections", "CreateList", "GetRaindropsByCollection"}
  /\ Cardinality(DOMAIN collectionMap) = 2

\* C29: the folder mapping is written by successful CreateList calls only:
\* it is empty until the first CreateList call returns, a step changes it
\* exactly when it is the return of a successful CreateList call, which sets
\* the entry of that folder's id to the id the destination returned and
\* leaves the other entries alone, its keys are ids of listed folders, and
\* no step of the item phase changes it.
C29_MappingWrittenOnSuccessOnly ==
  [][entry = "RunImport" =>
       /\ pc \in {"idle", "GetCollections"} => DOMAIN collectionMap = {}
       /\ IF pc = "CreateList" /\ rs = "returned" /\ ~CreateListFailed
          THEN LET id == collections[ci].ID
               IN  /\ DOMAIN collectionMap' = DOMAIN collectionMap \cup {id}
                   /\ collectionMap'[id] = ret.resp.body.val.ID
                   /\ \A k \in DOMAIN collectionMap \ {id} :
                        collectionMap'[k] = collectionMap[k]
          ELSE collectionMap' = collectionMap
       /\ pc \in ItemPCs \cup {"GetRaindropsByCollection"} =>
            collectionMap' = collectionMap
       /\ DOMAIN collectionMap' \subseteq
            {collections'[j].ID : j \in 1..Len(collections')}
    ]_vars

\* in the item phase of a run over two folders the first one, whose
\* CreateList call failed, has no entry and the second one has
C29_Witness ==
  /\ entry = "RunImport" /\ pc \in ItemPCs /\ Len(collections) = 2
  /\ collections[1].ID # collections[2].ID
  /\ DOMAIN collectionMap = {collections[2].ID}
  /\ collectionMap[collections[2].ID] # ""

\* C30: the retry budget belongs to one call of doRequestWithRetry: every
\* call, whatever the earlier calls of the run went through, starts at
\* attempt 0 with nothing slept and nothing received; during a call the
\* attempt counter is the number of 429 answers of this call alone; its
\* first retry sleeps between 1s and 1.1s; and a call gives up for rate
\* limiting only after 6 requests and 5 sleeps of its own.
C30_RetryBudgetPerCall ==
  [][/\ rs' = "loop" /\ nreq' = 0 =>
          /\ attempt' = 0 /\ n429' = 0 /\ nsleep' = 0 /\ lastSleep' = 0
          /\ ret' = NoRet /\ lastDo' = NoOutcome
     /\ rs = "loop" => attempt = n429 /\ attempt = nsleep /\ nreq = attempt
     /\ rs = "loop" /\ rs' = "loop" /\ nreq = 0 /\ nreq' = 1 =>
          /\ attempt' = 1 /\ nsleep' = 1
          /\ lastSleep' >= baseDelay /\ lastSleep' <= baseDelay + baseDelay \div 10
     /\ rs = "loop" /\ rs' = "returned" /\ lastDo'.status = StatusTooManyRequests =>
          /\ nreq' = maxRetries + 1 /\ n429' = maxRetries + 1
          /\ nsleep' = maxRetries
    ]_vars

\* the request for the second page of the second folder has used its 6
\* requests of its own, in a run none of whose CreateList calls succeeded
C30_Witness ==
  /\ entry = "RunImport" /\ pc = "GetRaindropsByCollection" /\ rs = "returned"
  /\ ci = 2 /\ fetches = <<0, 1>>
  /\ nreq = maxRetries + 1 /\ n429 = maxRetries + 1 /\ nsleep = maxRetries
  /\ collectionMap = <<>>

\* C31: a Retry-After header of a 429 answer changes nothing: whatever the
\* header holds, a 429 answer to an attempt before the last one is followed
\* by one sleep of the backoff value of that attempt, 1s * 2^attempt plus up
\* to 10%, and by a further attempt with the same request.
C31_RetryAfterIgnored ==
  [][rs = "loop" /\ nreq' = nreq + 1 /\ lastDo'.status = StatusTooManyRequests
       /\ attempt < maxRetries =>
         /\ rs' = "loop" /\ attempt' = attempt + 1 /\ nsleep' = nsleep + 1
         /\ req' = req /\ pc' = pc
         /\ lastSleep' >= baseDelay * 2^attempt
         /\ lastSleep' <= (baseDelay + baseDelay \div 10) * 2^attempt
    ]_vars

\* the first attempt of GetCollections was answered 429 with Retry-After: 2;
\* the client has slept about 1s, not 2s, and is about to send the second
\* attempt
C31_Witness ==
  /\ entry = "GetCollections" /\ pc = "GetCollections" /\ rs = "loop"
  /\ nreq = 1 /\ attempt = 1 /\ nsleep = 1
  /\ lastDo.status = StatusTooManyRequests /\ lastDo.retryAfter = <<"2">>
  /\ lastSleep >= baseDelay /\ lastSleep <= baseDelay + baseDelay \div 10

\* C32: every retry sends the request of the first attempt: an attempt that
\* follows a 429 answer is not failed by the request itself, and what the
\* server receives from it is the method, URL, Authorization header and
\* complete JSON body that it received from the first attempt.
C32_RetrySendsSameRequest ==
  [][rs = "loop" /\ nreq >= 1 /\ nreq' = nreq + 1 =>
       /\ req' = req
       /\ lastDo'.kind = "error" => lastDo'.err \in TransportErrors
       /\ lastDo'.kind = "resp" =>
            /\ receivedAuth' = receivedAuth
            /\ transport'.receivedBody = transport.receivedBody
            /\ transport'.receivedBody = RequestBody(req)
    ]_vars

\* C33: no response body is left open: whenever a request is about to be
\* sent (a first attempt, a retry after a 429 answer, the next page of a
\* pagination) and whenever the program is done, every response body received
\* so far has been closed; no body is closed twice; and when an operation
\* that was handed a response has returned, on its success, status-error or
\* decode-error path, that response has been closed exactly once.
C33_BodiesClosed ==
  /\ transport.open \in {0, 1} /\ transport.closes \in {0, 1}
  /\ rs = "loop" \/ pc = "done" => transport.open = 0
  /\ rs = "loop" /\ nreq > 0 => transport.closes = 1
  /\ rs = "returned" /\ pc \notin {"idle", "done"} =>
       IF ret.err = Nil THEN transport.open = 1 /\ transport.closes = 0
       ELSE transport.open = 0
  /\ entry \in ClientOperations /\ pc = "done" /\ ret.err = Nil =>
       transport.closes = 1

\* GetRaindropsByCollection is about to request its second page: the body
\* of the first page, which held items, has been closed
C33_Witness ==
  /\ entry = "GetRaindropsByCollection" /\ pc = "GetRaindropsByCollection"
  /\ rs = "loop" /\ nreq = 0 /\ fetches = <<0, 1>> /\ served # <<>>
  /\ transport.open = 0

\* C34: the pagination loop has no page limit of its own: after a page,
\* GetRaindropsByCollection returns exactly when the page is empty or its
\* fetch failed; after every non-empty page, whatever its index, it requests
\* the next index; so it has not returned while every page so far was
\* fetched and non-empty.
C34_PaginationUnbounded ==
  [][pc = "GetRaindropsByCollection" /\ rs = "returned" =>
       /\ pc' = "done" <=> PageFailed \/ LastPageReturned
       /\ ~(PageFailed \/ LastPageReturned) =>
            /\ CallStart("GetRaindropsByCollection")
            /\ page' = page + 1 /\ req'.page = page + 1
            /\ Len(allRaindrops') > Len(allRaindrops)
            /\ readRet' = NoReadRet
    ]_vars

\* every page up to the last index the source is followed to was non-empty,
\* and the call is still requesting pages
C34_Witness ==
  /\ entry = "Pagination" /\ pc = "GetRaindropsByCollection" /\ rs = "loop"
  /\ page = MaxPages /\ Len(served) = MaxPages
  /\ \A i \in 1..Len(served) : served[i] # <<>>
  /\ readRet = NoReadRet

\* a link call has returned without error
LinkSucceeded ==
  /\ pc = "AddBookmarkToList" /\ rs = "returned"
  /\ ret.err = Nil /\ ret.resp.status = 200

\* C35: every failure that RunImport goes on after is logged exactly once
\* and nothing else is: at every point of a run, its end included, the
\* number of failure entries RunImport has written is the number of
\* CreateList calls, item fetches, CreateBookmark calls and AddBookmarkToList
\* calls that have returned an error so far.
C35_FailuresLoggedOnce ==
  entry = "RunImport" /\ tally.on => tally.logged = tally.failed

\* one folder, two items, the first create failed, the second item has been
\* created and linked: one failure, one entry
C35_Witness ==
  /\ entry = "RunImport" /\ tally.on /\ LinkSucceeded
  /\ Len(collections) = 1 /\ Len(raindrops) = 2 /\ ri = 2
  /\ collectionMap # <<>> /\ created = <<FALSE, TRUE>>
  /\ tally.failed = 1 /\ tally.logged = 1

\* C36: every AddBookmarkToList call RunImport makes has a non-empty list id
\* and a non-empty bookmark id.
C36_LinkIdsNonEmpty ==
  entry = "RunImport" /\ pc = "AddBookmarkToList" =>
    req.listID # "" /\ req.bookmarkID # ""

\* C37: doRequestWithRetry returns either a response and a nil error or a nil
\* response and an error, never both nil and never both set, and it never
\* returns through the statement after its loop, whatever the server answers.
C37_RespXorErr ==
  rs = "returned" =>
    /\ (ret.resp = NilResp) # (ret.err = Nil)
    /\ ret.resp # NilResp => ret.resp.status # 0
    /\ ret.err # "unexpected error in retry logic"

\* the last iteration of the loop was answered 429: the sixth request of a
\* call has been made and the call has returned the rate limit error
C37_Witness ==
  /\ InCall /\ rs = "returned" /\ nreq = maxRetries + 1 /\ n429 = nreq
  /\ ret.resp = NilResp /\ ret.err = RateLimitError(StatusTooManyRequests)

====
